---- MODULE Spec2Model ----
(***************************************************************************)
(* Intent recognition engine of the AI script inventory and the terminals  *)
(* that dispatch on it.                                                    *)
(*                                                                         *)
(* Two recognizers live in the repository and both are modelled:           *)
(*   variant "A"  src/ai/intent.py            (IntentRecognizer)           *)
(*   variant "B"  src/ai/__init__.py:19-406   (the ai/intent.py that file  *)
(*                                             writes out)                 *)
(* Text is a sequence of one-character strings, so that lower(), strip(),  *)
(* split(), substring tests and the regular expressions are computed on    *)
(* characters as the Python code computes them.                            *)
(* Confidences are exact multiples of 1/SCALE (SCALE = 1800 makes every    *)
(* weight/len(keywords) quotient of the pattern table an integer).         *)
(***************************************************************************)
EXTENDS Integers, Sequences, FiniteSets, TLC

VARIABLES
    HAS_SPACY,   \* `import spacy` succeeds in this installation
    en_core_web_sm, \* what spacy.load("en_core_web_sm") does in this installation
    library,     \* the pattern definitions the classes carry: sound, or one malformed
    engines,     \* engine id -> the fields of an IntentRecognizer
    loads,       \* number of times spacy.load("en_core_web_sm") has loaded the model
    last,        \* the recognize call that completed last
    memo,        \* one earlier completed recognize call, kept for comparison
    calls,       \* thread id -> a recognize call in progress (its frame)
    term,        \* the terminal: its kind, the Intent in hand, prompt, answer, handler
    memory,      \* a MemorySystem, with the exchanges it was asked to remember
    orchestrator, \* a SupermanOrchestrator: running, superman_mode, history
    fs           \* the folders safe_move works on, and the clock

vars == <<HAS_SPACY, en_core_web_sm, library, engines, loads, last, memo, calls, term, memory, orchestrator, fs>>

-----------------------------------------------------------------------------
(* Characters and strings                                                  *)

LowerLetters ==
    {"a","b","c","d","e","f","g","h","i","j","k","l","m",
     "n","o","p","q","r","s","t","u","v","w","x","y","z"}

UpperLetters ==
    {"A","B","C","D","E","F","G","H","I","J","K","L","M",
     "N","O","P","Q","R","S","T","U","V","W","X","Y","Z"}

Digits == {"0","1","2","3","4","5","6","7","8","9"}

UpperToLower ==
    [c \in UpperLetters |->
        CASE c = "A" -> "a" [] c = "B" -> "b" [] c = "C" -> "c" [] c = "D" -> "d"
          [] c = "E" -> "e" [] c = "F" -> "f" [] c = "G" -> "g" [] c = "H" -> "h"
          [] c = "I" -> "i" [] c = "J" -> "j" [] c = "K" -> "k" [] c = "L" -> "l"
          [] c = "M" -> "m" [] c = "N" -> "n" [] c = "O" -> "o" [] c = "P" -> "p"
          [] c = "Q" -> "q" [] c = "R" -> "r" [] c = "S" -> "s" [] c = "T" -> "t"
          [] c = "U" -> "u" [] c = "V" -> "v" [] c = "W" -> "w" [] c = "X" -> "x"
          [] c = "Y" -> "y" [] c = "Z" -> "z"]

LowerChar(c) == IF c \in UpperLetters THEN UpperToLower[c] ELSE c

\* str.lower()
Lower(s) == [i \in 1..Len(s) |-> LowerChar(s[i])]

\* str.isspace() of one character
IsSpace(c) == c \in {" ", "\t", "\n"}

\* \w of the re module
IsWordChar(c) == c \in LowerLetters \cup UpperLetters \cup Digits \cup {"_"}

IsAlphaChar(c) == c \in LowerLetters \cup UpperLetters

\* str.strip()
Strip(s) ==
    LET keep == {i \in 1..Len(s) : ~IsSpace(s[i])}
    IN  IF keep = {} THEN << >>
        ELSE LET lo == CHOOSE i \in keep : \A j \in keep : i <= j
                 hi == CHOOSE i \in keep : \A j \in keep : j <= i
             IN  SubSeq(s, lo, hi)

\* str.strip(chars)
StripChars(s, chars) ==
    LET keep == {i \in 1..Len(s) : s[i] \notin chars}
    IN  IF keep = {} THEN << >>
        ELSE LET lo == CHOOSE i \in keep : \A j \in keep : i <= j
                 hi == CHOOSE i \in keep : \A j \in keep : j <= i
             IN  SubSeq(s, lo, hi)

\* str.split(): the maximal runs of non-whitespace, in order
RECURSIVE SplitFrom(_, _)
SplitFrom(s, i) ==
    IF i > Len(s) THEN << >>
    ELSE IF IsSpace(s[i]) THEN SplitFrom(s, i + 1)
    ELSE LET stops == {j \in i..Len(s) : IsSpace(s[j])}
             e == IF stops = {} THEN Len(s) + 1
                  ELSE CHOOSE j \in stops : \A k \in stops : j <= k
         IN  <<SubSeq(s, i, e - 1)>> \o SplitFrom(s, e)

Split(s) == SplitFrom(s, 1)

\* s[i:i+len(k)] == k
MatchAt(s, k, i) ==
    /\ i >= 1
    /\ i + Len(k) - 1 <= Len(s)
    /\ \A j \in 1..Len(k) : s[i + j - 1] = k[j]

\* k in s
Contains(s, k) == \E i \in 1..(Len(s) - Len(k) + 1) : MatchAt(s, k, i)

\* s.endswith(k)
EndsWith(s, k) == Len(k) <= Len(s) /\ MatchAt(s, k, Len(s) - Len(k) + 1)

\* s.startswith(k)
StartsWith(s, k) == MatchAt(s, k, 1)

\* " ".join(words)
RECURSIVE JoinWords(_)
JoinWords(ws) ==
    IF ws = << >> THEN << >>
    ELSE IF Len(ws) = 1 THEN ws[1]
    ELSE ws[1] \o <<" ">> \o JoinWords(Tail(ws))

-----------------------------------------------------------------------------
(* Regular expressions (the subset of `re` the pattern tables use).        *)
(* A pattern is a sequence of elements; Rx tries the alternatives of each  *)
(* element in the order Python's backtracking matcher tries them, so the   *)
(* match found is the one re.search / re.match returns.                    *)

Lit(s)    == [t |-> "lit", s |-> s]        \* literal text
Alt(ps)   == [t |-> "alt", s |-> ps]       \* (?:p1|p2|p3), leftmost alternative first
OptSeq(p) == [t |-> "opt", s |-> p]        \* (?:p)? greedy
Opt(s)    == OptSeq(<<Lit(s)>>)            \* s? of a literal
NotAhead(ss) == [t |-> "notahead", s |-> ss]  \* (?!a|b|c)
\* an element without operand: "b" is \b, "bol" ^, "eol" $, "s+" \s+, "s*" \s*,
\* "w+" \w+, "S+" \S+, ".*" .*, ".+" .+, ".*?" the lazy .*?
Atom(t)   == [t |-> t, s |-> << >>]
GOpen(g)  == [t |-> "open", s |-> g]       \* ( of capture group g
GClose(g) == [t |-> "close", s |-> g]      \* ) of capture group g

RxFail == [ok |-> FALSE, start |-> 0, end |-> 0, caps |-> << >>]

\* \b holds at position p (before character p)
AtWordBoundary(s, p) ==
    LET before == p > 1 /\ IsWordChar(s[p - 1])
        after  == p <= Len(s) /\ IsWordChar(s[p])
    IN  before # after

\* length of the longest run of characters satisfying Cls starting at p
RunLen(s, p, Cls(_)) ==
    LET stops == {j \in p..Len(s) : ~Cls(s[j])}
    IN  IF stops = {} THEN Len(s) + 1 - p
        ELSE (CHOOSE j \in stops : \A k \in stops : j <= k) - p

IsNotSpace(c) == ~IsSpace(c)
IsDot(c) == c # "\n"

\* positions p+lo .. p+hi, longest first (greedy) or shortest first (lazy)
Greedy(p, lo, hi) == [i \in 1..(IF hi >= lo THEN hi - lo + 1 ELSE 0) |-> p + hi - (i - 1)]
Lazy(p, lo, hi)   == [i \in 1..(IF hi >= lo THEN hi - lo + 1 ELSE 0) |-> p + lo + (i - 1)]

RECURSIVE Rx(_, _, _, _, _)
RECURSIVE RxTry(_, _, _, _, _)
RECURSIVE RxTryRange(_, _, _, _, _, _, _)
RECURSIVE RxAlt(_, _, _, _, _, _)

\* match elements k.. of re against s from position p; caps are the groups so far
Rx(re, k, s, p, caps) ==
    IF k > Len(re) THEN [ok |-> TRUE, start |-> 0, end |-> p, caps |-> caps]
    ELSE LET e == re[k] IN
      CASE e.t = "lit" ->
             IF MatchAt(s, e.s, p) THEN Rx(re, k + 1, s, p + Len(e.s), caps) ELSE RxFail
        [] e.t = "alt" -> RxAlt(re, k, s, p, caps, 1)
        [] e.t = "opt" ->
             LET OrSkip(taken) == IF taken.ok THEN taken ELSE Rx(re, k + 1, s, p, caps)
             IN  OrSkip(Rx(e.s \o SubSeq(re, k + 1, Len(re)), 1, s, p, caps))
        [] e.t = "notahead" ->
             IF \E i \in 1..Len(e.s) : MatchAt(s, e.s[i], p) THEN RxFail
             ELSE Rx(re, k + 1, s, p, caps)
        [] e.t = "b" ->
             IF AtWordBoundary(s, p) THEN Rx(re, k + 1, s, p, caps) ELSE RxFail
        [] e.t = "bol" -> IF p = 1 THEN Rx(re, k + 1, s, p, caps) ELSE RxFail
        [] e.t = "eol" -> IF p = Len(s) + 1 THEN Rx(re, k + 1, s, p, caps) ELSE RxFail
        [] e.t = "s+" -> RxTry(re, k, s, Greedy(p, 1, RunLen(s, p, IsSpace)), caps)
        [] e.t = "s*" -> RxTry(re, k, s, Greedy(p, 0, RunLen(s, p, IsSpace)), caps)
        [] e.t = "w+" -> RxTry(re, k, s, Greedy(p, 1, RunLen(s, p, IsWordChar)), caps)
        [] e.t = "S+" -> RxTry(re, k, s, Greedy(p, 1, RunLen(s, p, IsNotSpace)), caps)
        [] e.t = ".*" -> RxTry(re, k, s, Greedy(p, 0, RunLen(s, p, IsDot)), caps)
        [] e.t = ".+" -> RxTry(re, k, s, Greedy(p, 1, RunLen(s, p, IsDot)), caps)
        [] e.t = ".*?" -> RxTry(re, k, s, Lazy(p, 0, RunLen(s, p, IsDot)), caps)
        [] e.t = "open" ->
             Rx(re, k + 1, s, p, [caps EXCEPT ![e.s] = <<p, 0>>])
        [] e.t = "close" ->
             Rx(re, k + 1, s, p, [caps EXCEPT ![e.s] = <<caps[e.s][1], p>>])

\* the candidate end positions of element k, in priority order: the first
\* candidate of cands[lo..hi] from which the rest of the pattern matches
RxTry(re, k, s, cands, caps) == RxTryRange(re, k, s, cands, caps, 1, Len(cands))

RxTryRange(re, k, s, cands, caps, lo, hi) ==
    IF lo > hi THEN RxFail
    ELSE IF lo = hi THEN Rx(re, k + 1, s, cands[lo], caps)
    ELSE LET mid == (lo + hi) \div 2
             OrUpper(r) == IF r.ok THEN r ELSE RxTryRange(re, k, s, cands, caps, mid + 1, hi)
         IN  OrUpper(RxTryRange(re, k, s, cands, caps, lo, mid))

\* the alternatives of an "alt" element, leftmost first
RxAlt(re, k, s, p, caps, i) ==
    IF i > Len(re[k].s) THEN RxFail
    ELSE LET OrNext(r) == IF r.ok THEN r ELSE RxAlt(re, k, s, p, caps, i + 1)
         IN  OrNext(Rx(re[k].s[i] \o SubSeq(re, k + 1, Len(re)), 1, s, p, caps))

\* no group has matched: group(g) is None
NoCaps == <<<<0, 0>>, <<0, 0>>>>

\* re.match(re, s)
ReMatch(re, s) ==
    LET From1(r) == IF r.ok THEN [r EXCEPT !.start = 1] ELSE RxFail
    IN  From1(Rx(re, 1, s, 1, NoCaps))

\* re.search(re, s): the leftmost start position in lo..hi that matches
RECURSIVE ReSearchRange(_, _, _, _)
ReSearchRange(re, s, lo, hi) ==
    IF lo > hi THEN RxFail
    ELSE IF lo = hi
    THEN LET FromLo(r) == IF r.ok THEN [r EXCEPT !.start = lo] ELSE RxFail
         IN  FromLo(Rx(re, 1, s, lo, NoCaps))
    ELSE LET mid == (lo + hi) \div 2
             OrUpper(r) == IF r.ok THEN r ELSE ReSearchRange(re, s, mid + 1, hi)
         IN  OrUpper(ReSearchRange(re, s, lo, mid))

ReSearchFrom(re, s, p) == ReSearchRange(re, s, p, Len(s) + 1)

ReSearch(re, s) == ReSearchFrom(re, s, 1)

\* match.group(): the matched text
MatchText(s, m) == SubSeq(s, m.start, m.end - 1)

\* match.group(g) is not None
GroupSet(m, g) == m.caps[g][1] > 0 /\ m.caps[g][2] > 0

\* match.group(g) of a group that took part in the match
GroupText(s, m, g) == SubSeq(s, m.caps[g][1], m.caps[g][2] - 1)

-----------------------------------------------------------------------------
(* Intent values                                                           *)

\* class IntentType of variant A
IntentTypeA ==
    {"SUMMARIZE", "RUN_SCRIPT", "LIST", "SHOW", "PREVIEW", "RENAME", "SEARCH",
     "HELP", "EXIT", "AI_CHAT", "UNKNOWN"}

\* class IntentType of variant B
IntentTypeB ==
    {"RUN", "LIST", "SEARCH", "HELP", "EXIT", "CREATE", "DELETE", "ORGANIZE",
     "UNKNOWN", "AI_CHAT"}

\* confidences are integers: confidence * SCALE
SCALE == 1800

\* tenths of the confidence unit: Conf(3) is 0.3
Conf(tenths) == (tenths * SCALE) \div 10

\* Optional[str]
None == << >>
Some(s) == <<s>>

\* the empty dict
EmptyParams == [k \in {} |-> << >>]

\* params[k] = v
Put(params, k, v) == [x \in (DOMAIN params) \cup {k} |-> IF x = k THEN v ELSE params[x]]

\* Intent(type, confidence, target, parameters, original_input); raised is set
\* (and the other fields are blank) when the call ended in an exception instead
Intent(type, confidence, target, parameters, original_input) ==
    [raised |-> FALSE, type |-> type, confidence |-> confidence, target |-> target,
     parameters |-> parameters, original_input |-> original_input]

Raised ==
    [raised |-> TRUE, type |-> "UNKNOWN", confidence |-> 0, target |-> None,
     parameters |-> EmptyParams, original_input |-> << >>]

-----------------------------------------------------------------------------
(* Variant A, fallback mode: keyword and regular-expression scoring        *)

\* self.file_extensions
file_extensions ==
    {<<".","p","y">>, <<".","s","h">>, <<".","m","d">>, <<".","t","x","t">>,
     <<".","p","d","f">>, <<".","d","o","c">>, <<".","d","o","c","x">>}

\* _build_intent_patterns: the fallback table, in the dict's insertion order;
\* weight is in tenths
_build_intent_patterns ==
    <<
      [type |-> "HELP", dicts |-> <<
        [kind |-> "keywords", weight |-> 10, items |->
          <<<<"h","e","l","p">>, <<"u","s","a","g","e">>, <<"h","o","w">>, <<"w","h","a","t">>, <<"c","o","m","m","a","n","d","s">>>>],
        [kind |-> "patterns", weight |-> 9, items |->
          <<
            <<Atom("b"), Lit(<<"h","e","l","p">>), Atom("b")>>,
            <<Atom("b"), Lit(<<"h","o","w"," ","t","o">>), Atom("b")>>,
            <<Atom("b"), Lit(<<"w","h","a","t">>), Atom(".*"), Lit(<<"d","o">>), Atom("b")>>>>]>>],
      [type |-> "EXIT", dicts |-> <<
        [kind |-> "keywords", weight |-> 10, items |->
          <<<<"e","x","i","t">>, <<"q","u","i","t">>, <<"b","y","e">>, <<"g","o","o","d","b","y","e">>>>],
        [kind |-> "patterns", weight |-> 10, items |->
          <<
            <<Atom("b"), Lit(<<"e","x","i","t">>), Atom("b")>>,
            <<Atom("b"), Lit(<<"q","u","i","t">>), Atom("b")>>,
            <<Atom("b"), Lit(<<"b","y","e">>), Atom("b")>>>>]>>],
      [type |-> "SUMMARIZE", dicts |-> <<
        [kind |-> "keywords", weight |-> 10, items |->
          <<<<"s","u","m","m","a","r","i","z","e">>, <<"s","u","m","m","a","r","y">>, <<"b","r","i","e","f">>, <<"o","v","e","r","v","i","e","w">>>>],
        [kind |-> "patterns", weight |-> 9, items |->
          <<
            <<Atom("b"), Lit(<<"s","u","m","m","a","r","i","z","e">>), Atom("b")>>,
            <<Atom("b"), Lit(<<"g","i","v","e">>), Atom(".*"), Lit(<<"s","u","m","m","a","r","y">>), Atom("b")>>,
            <<Atom("b"), Lit(<<"b","r","i","e","f">>), Atom(".*"), Lit(<<"o","v","e","r","v","i","e","w">>), Atom("b")>>>>],
        [kind |-> "context_keywords", weight |-> 3, items |->
          <<<<"m","e","e","t","i","n","g">>, <<"n","o","t","e","s">>, <<"d","o","c","u","m","e","n","t">>, <<"f","i","l","e">>, <<"t","e","x","t">>>>]>>],
      [type |-> "RUN_SCRIPT", dicts |-> <<
        [kind |-> "keywords", weight |-> 8, items |->
          <<<<"r","u","n">>, <<"e","x","e","c","u","t","e">>, <<"s","t","a","r","t">>, <<"l","a","u","n","c","h">>>>],
        [kind |-> "patterns", weight |-> 9, items |->
          <<
            <<Atom("b"), Lit(<<"r","u","n">>), Atom("s+"), Atom("w+")>>,
            <<Atom("b"), Lit(<<"e","x","e","c","u","t","e">>), Atom("s+"), Atom("w+")>>,
            <<Atom("b"), Lit(<<"s","t","a","r","t">>), Atom("s+"), Atom("w+")>>>>],
        [kind |-> "context_keywords", weight |-> 4, items |->
          <<<<"s","c","r","i","p","t">>, <<"p","y","t","h","o","n">>, <<"s","h","e","l","l">>, <<".","p","y">>, <<".","s","h">>>>]>>],
      [type |-> "LIST", dicts |-> <<
        [kind |-> "keywords", weight |-> 7, items |->
          <<<<"l","i","s","t">>, <<"s","h","o","w">>, <<"d","i","s","p","l","a","y">>>>],
        [kind |-> "patterns", weight |-> 9, items |->
          <<
            <<Atom("b"), Lit(<<"l","i","s","t">>), Atom("s+"), Atom(".*"), Lit(<<"f","i","l","e">>), Opt(<<"s">>), Atom("b")>>,
            <<Atom("b"), Lit(<<"s","h","o","w">>), Atom("s+"), Atom(".*"), Lit(<<"f","i","l","e">>), Opt(<<"s">>), Atom("b")>>,
            <<Atom("b"), Lit(<<"l","s">>), Atom("b")>>>>],
        [kind |-> "context_keywords", weight |-> 4, items |->
          <<<<"f","i","l","e","s">>, <<"s","c","r","i","p","t","s">>, <<"d","o","c","u","m","e","n","t","s">>, <<"a","l","l">>, <<"d","i","r","e","c","t","o","r","y">>>>]>>],
      [type |-> "SHOW", dicts |-> <<
        [kind |-> "keywords", weight |-> 7, items |->
          <<<<"s","h","o","w">>, <<"d","i","s","p","l","a","y">>, <<"v","i","e","w">>, <<"o","p","e","n">>>>],
        [kind |-> "patterns", weight |-> 8, items |->
          <<
            <<Atom("b"), Lit(<<"s","h","o","w">>), Atom("s+"), Atom("w+")>>,
            <<Atom("b"), Lit(<<"v","i","e","w">>), Atom("s+"), Atom("w+")>>,
            <<Atom("b"), Lit(<<"o","p","e","n">>), Atom("s+"), Atom("w+")>>>>],
        [kind |-> "context_keywords", weight |-> 3, items |->
          <<<<"f","i","l","e">>, <<"d","o","c","u","m","e","n","t">>, <<"c","o","n","t","e","n","t">>>>]>>],
      [type |-> "PREVIEW", dicts |-> <<
        [kind |-> "keywords", weight |-> 10, items |->
          <<<<"p","r","e","v","i","e","w">>, <<"p","e","e","k">>, <<"g","l","i","m","p","s","e">>>>],
        [kind |-> "patterns", weight |-> 9, items |->
          <<
            <<Atom("b"), Lit(<<"p","r","e","v","i","e","w">>), Atom("s+"), Atom("w+")>>,
            <<Atom("b"), Lit(<<"p","e","e","k">>), Atom("s+"), Lit(<<"a","t">>), Atom("s+"), Atom("w+")>>>>]>>],
      [type |-> "SEARCH", dicts |-> <<
        [kind |-> "keywords", weight |-> 9, items |->
          <<<<"s","e","a","r","c","h">>, <<"f","i","n","d">>, <<"l","o","o","k">>, <<"g","r","e","p">>>>],
        [kind |-> "patterns", weight |-> 9, items |->
          <<
            <<Atom("b"), Lit(<<"f","i","n","d">>), Atom("s+"), Atom("w+")>>,
            <<Atom("b"), Lit(<<"s","e","a","r","c","h">>), Atom("s+"), Lit(<<"f","o","r">>), Atom("s+"), Atom("w+")>>,
            <<Atom("b"), Lit(<<"l","o","o","k">>), Atom("s+"), Lit(<<"f","o","r">>), Atom("s+"), Atom("w+")>>>>],
        [kind |-> "context_keywords", weight |-> 3, items |->
          <<<<"f","i","l","e">>, <<"f","i","l","e","s">>, <<"i","n">>, <<"c","o","n","t","a","i","n","i","n","g">>>>]>>],
      [type |-> "RENAME", dicts |-> <<
        [kind |-> "keywords", weight |-> 10, items |->
          <<<<"r","e","n","a","m","e">>, <<"m","o","v","e">>, <<"m","v">>>>],
        [kind |-> "patterns", weight |-> 9, items |->
          <<
            <<Atom("b"), Lit(<<"r","e","n","a","m","e">>), Atom("s+"), Atom("w+")>>,
            <<Atom("b"), Lit(<<"m","o","v","e">>), Atom("s+"), Atom("w+"), Atom(".*"), Lit(<<"t","o">>), Atom("s+"), Atom("w+")>>>>]>>],
      [type |-> "AI_CHAT", dicts |-> <<
        [kind |-> "keywords", weight |-> 7, items |->
          <<<<"w","h","y">>, <<"h","o","w">>, <<"w","h","e","n">>, <<"w","h","e","r","e">>, <<"w","h","o">>, <<"w","h","a","t">>, <<"a","d","v","i","c","e">>, <<"t","i","p">>, <<"r","e","c","o","m","m","e","n","d">>>>],
        [kind |-> "patterns", weight |-> 8, items |->
          <<
            <<Atom("b"), Lit(<<"w","h","y">>), Atom("s+")>>,
            <<Atom("b"), Lit(<<"h","o","w">>), Atom("s+")>>,
            <<Atom("b"), Lit(<<"w","h","a","t">>), Atom("s+"), Lit(<<"i","s">>), Atom("b")>>,
            <<Atom("b"), Lit(<<"c","a","n">>), Atom("s+"), Lit(<<"y","o","u">>), Atom("b")>>,
            <<Atom("b"), Lit(<<"t","e","l","l">>), Atom("s+"), Lit(<<"m","e">>), Atom("b")>>>>],
        [kind |-> "context_keywords", weight |-> 3, items |->
          <<<<"e","x","p","l","a","i","n">>, <<"h","e","l","p">>, <<"u","n","d","e","r","s","t","a","n","d">>, <<"k","n","o","w">>, <<"l","e","a","r","n">>>>]>>]
    >>

\* the first ["'][^"']+["'] of the text, as re.findall(...)[0] gives its group
FirstQuoted(s, p) ==
    LET IsNotQuote(c) == c \notin {"\"", "'"}
        closed(q) == LET n == RunLen(s, q + 1, IsNotQuote)
                     IN  n >= 1 /\ q + 1 + n <= Len(s)
        opens == {q \in p..Len(s) : s[q] \in {"\"", "'"} /\ closed(q)}
    IN  IF opens = {} THEN None
        ELSE LET q == CHOOSE x \in opens : \A y \in opens : x <= y
             IN  Some(SubSeq(s, q + 1, q + RunLen(s, q + 1, IsNotQuote)))

\* the loop over words of _extract_file_target_regex
RECURSIVE FileTargetInWords(_)
FileTargetInWords(words) ==
    IF words = << >> THEN None
    ELSE LET clean_word == StripChars(Head(words), {".", ",", "!", "?", ";", ":", "\"", "'"})
         IN  IF \E ext \in file_extensions : EndsWith(clean_word, ext)
             THEN Some(clean_word)
             ELSE IF Contains(clean_word, <<"_">>) \/ Contains(clean_word, <<"-">>)
             THEN Some(clean_word)
             ELSE FileTargetInWords(Tail(words))

_extract_file_target_regex(user_input) ==
    LET byWord == FileTargetInWords(Split(user_input))
    IN  IF byWord # None THEN byWord ELSE FirstQuoted(user_input, 1)

\* the word after the first of in/from/under that has a word after it
RECURSIVE DirectoryInWords(_, _)
DirectoryInWords(words, i) ==
    IF i > Len(words) THEN None
    ELSE IF Lower(words[i]) \in {<<"i","n">>, <<"f","r","o","m">>, <<"u","n","d","e","r">>}
            /\ i + 1 <= Len(words)
         THEN Some(words[i + 1])
         ELSE DirectoryInWords(words, i + 1)

_extract_parameters_regex(user_input, target) ==
    LET low == Lower(user_input)
        p0 == EmptyParams
        p1 == IF Contains(low, <<"p","d","f">>)
                THEN Put(p0, "file_type", <<"p","d","f">>)
              ELSE IF Contains(low, <<"p","y","t","h","o","n">>) \/ Contains(low, <<".","p","y">>)
                THEN Put(p0, "file_type", <<"p","y","t","h","o","n">>)
              ELSE IF Contains(low, <<"s","h","e","l","l">>) \/ Contains(low, <<".","s","h">>)
                THEN Put(p0, "file_type", <<"s","h","e","l","l">>)
              ELSE IF Contains(low, <<"m","a","r","k","d","o","w","n">>) \/ Contains(low, <<".","m","d">>)
                THEN Put(p0, "file_type", <<"m","a","r","k","d","o","w","n">>)
              ELSE p0
        p2 == IF Contains(low, <<"a","l","l">>)
                THEN Put(p1, "scope", <<"a","l","l">>)
              ELSE IF Contains(low, <<"r","e","c","e","n","t">>) \/ Contains(low, <<"l","a","t","e","s","t">>)
                THEN Put(p1, "scope", <<"r","e","c","e","n","t">>)
              ELSE p1
        dir == DirectoryInWords(Split(user_input), 1)
    IN  IF dir # None THEN Put(p2, "directory", dir[1]) ELSE p2

\* matches / len(keywords), times the weight, in confidence units
_score_keywords(text, keywords, weight) ==
    IF Len(keywords) = 0 THEN 0
    ELSE (Cardinality({i \in 1..Len(keywords) : Contains(text, keywords[i])}) * SCALE * weight)
             \div (Len(keywords) * 10)

\* the target one matching pattern offers: its first group, else the second
\* word of the matched text (the table's patterns have no groups)
PatternTarget(text, m) ==
    LET words == Split(MatchText(text, m))
    IN  IF Len(words) > 1 THEN Some(words[2]) ELSE None

\* target of _score_patterns: set by the first pattern that offers one
\* (a target that is the empty string counts as not set: `if not target`)
RECURSIVE PatternsTarget(_, _, _)
PatternsTarget(text, patterns, i) ==
    IF i > Len(patterns) THEN None
    ELSE LET Offered(m) == IF m.ok THEN PatternTarget(text, m) ELSE None
             OrNext(t) == IF t # None /\ t # Some(<< >>) THEN t
                          ELSE PatternsTarget(text, patterns, i + 1)
         IN  OrNext(Offered(ReSearch(patterns[i], text)))

\* total_matches / len(patterns), times the weight, and the target
_score_patterns(text, patterns, weight) ==
    [score |-> IF Len(patterns) = 0 THEN 0
               ELSE (Cardinality({i \in 1..Len(patterns) : ReSearch(patterns[i], text).ok})
                        * SCALE * weight) \div (Len(patterns) * 10),
     target |-> PatternsTarget(text, patterns, 1)]

\* the sum of the scores of the pattern dicts of one intent type
RECURSIVE TotalScore(_, _, _)
TotalScore(normalized_input, dicts, i) ==
    IF i > Len(dicts) THEN 0
    ELSE (IF dicts[i].kind = "patterns"
          THEN _score_patterns(normalized_input, dicts[i].items, dicts[i].weight).score
          ELSE _score_keywords(normalized_input, dicts[i].items, dicts[i].weight))
         + TotalScore(normalized_input, dicts, i + 1)

\* the target of the first "patterns" dict that extracts one
RECURSIVE DictsTarget(_, _, _)
DictsTarget(normalized_input, dicts, i) ==
    IF i > Len(dicts) THEN None
    ELSE LET OrNext(t) == IF t # None THEN t ELSE DictsTarget(normalized_input, dicts, i + 1)
         IN  OrNext(IF dicts[i].kind = "patterns"
                    THEN _score_patterns(normalized_input, dicts[i].items, dicts[i].weight).target
                    ELSE None)

\* a scorer that returns the summed score as it is, without min(score, 1.0)
CapScoreOff(total_score) == total_score

\* min(total_score, 1.0)
CapScore(total_score) == IF total_score < Conf(10) THEN total_score ELSE Conf(10)

_calculate_intent_score(normalized_input, dicts, original_input) ==
    LET OrFileTarget(fromPatterns) ==
            IF fromPatterns # None THEN fromPatterns
            ELSE _extract_file_target_regex(original_input)
        Scored(target) ==
            [score |-> CapScore(TotalScore(normalized_input, dicts, 1)),
             target |-> target,
             params |-> _extract_parameters_regex(original_input, target)]
    IN  Scored(OrFileTarget(DictsTarget(normalized_input, dicts, 1)))

\* max(intent_scores.keys(), key=...): the first key, in insertion order, whose
\* score is the largest
BestIndex(scores) ==
    CHOOSE i \in 1..Len(scores) :
        /\ \A j \in 1..Len(scores) : scores[j] <= scores[i]
        /\ \A j \in 1..(i - 1) : scores[j] < scores[i]

\* the threshold under which a score is classified as unknown
UnknownBelow == Conf(3)

\* the local dict intent_scores (with the targets and parameters found on the
\* way) that the loop of _recognize_with_patterns fills, one entry per kind
PatternScores(intent_patterns, user_input) ==
    LET normalized_input == Strip(Lower(user_input))
    IN  [i \in 1..Len(intent_patterns) |->
            _calculate_intent_score(normalized_input, intent_patterns[i].dicts, user_input)]

\* the rest of _recognize_with_patterns: the best kind of the local dict
PickPattern(intent_patterns, results, user_input) ==
    LET best == BestIndex([i \in 1..Len(results) |-> results[i].score])
        best_score == results[best].score
    IN  IF best_score < UnknownBelow
        THEN Intent("UNKNOWN", best_score, None, EmptyParams, user_input)
        ELSE Intent(intent_patterns[best].type, best_score, results[best].target,
                    results[best].params, user_input)

_recognize_with_patterns(intent_patterns, user_input) ==
    PickPattern(intent_patterns, PatternScores(intent_patterns, user_input), user_input)

-----------------------------------------------------------------------------
(* Variant B, fallback patterns                                            *)

\* _setup_fallback_patterns: self.fallback_patterns in the dict's insertion order;
\* groups is the number of capture groups of the expression
_setup_fallback_patterns ==
    <<
      [type |-> "RUN", patterns |-> <<
        [groups |-> 1, re |->
          <<Atom("bol"), Alt(<<<<Lit(<<"r","u","n">>)>>, <<Lit(<<"e","x","e","c","u","t","e">>)>>, <<Lit(<<"s","t","a","r","t">>)>>>>), Atom("s+"), GOpen(1), Atom(".+"), GClose(1), Atom("eol")>>],
        [groups |-> 2, re |->
          <<Atom("bol"), Lit(<<"p","y","t","h","o","n">>), Atom("s+"), GOpen(1), Atom("S+"), Lit(<<".","p","y">>), GClose(1), OptSeq(<<Atom("s+"), GOpen(2), Atom(".+"), GClose(2)>>), Atom("eol")>>],
        [groups |-> 2, re |->
          <<Atom("bol"), Lit(<<".","/">>), GOpen(1), Atom("S+"), Lit(<<".","s","h">>), GClose(1), OptSeq(<<Atom("s+"), GOpen(2), Atom(".+"), GClose(2)>>), Atom("eol")>>]>>],
      [type |-> "LIST", patterns |-> <<
        [groups |-> 1, re |->
          <<Atom("bol"), Alt(<<<<Lit(<<"l","i","s","t">>)>>, <<Lit(<<"s","h","o","w">>)>>, <<Lit(<<"d","i","s","p","l","a","y">>)>>, <<Lit(<<"l","s">>)>>, <<Lit(<<"d","i","r">>)>>>>), Atom("s*"), GOpen(1), Atom(".*?"), GClose(1), Atom("eol")>>]>>],
      [type |-> "SEARCH", patterns |-> <<
        [groups |-> 1, re |->
          <<Atom("bol"), Alt(<<<<Lit(<<"s","e","a","r","c","h">>)>>, <<Lit(<<"f","i","n","d">>)>>, <<Lit(<<"l","o","c","a","t","e">>)>>, <<Lit(<<"g","r","e","p">>)>>>>), Atom("s+"), GOpen(1), Atom(".+"), GClose(1), Atom("eol")>>]>>],
      [type |-> "HELP", patterns |-> <<
        [groups |-> 1, re |->
          <<Atom("bol"), Alt(<<<<Lit(<<"h","e","l","p">>)>>, <<Lit(<<"-","-","h","e","l","p">>)>>, <<Lit(<<"m","a","n">>)>>, <<Lit(<<"m","a","n","u","a","l">>)>>, <<Lit(<<"g","u","i","d","e">>)>>>>), OptSeq(<<Atom("s+"), GOpen(1), Atom(".+"), GClose(1)>>), Atom("eol")>>],
        [groups |-> 1, re |->
          <<Atom("bol"), Alt(<<<<Lit(<<"h","o","w">>), Atom("s+"), Lit(<<"t","o">>)>>, <<Lit(<<"w","h","a","t">>), Atom("s+"), Lit(<<"i","s">>)>>, <<Lit(<<"h","o","w">>), Atom("s+"), Lit(<<"d","o">>), Atom("s+"), Lit(<<"i">>)>>>>), Atom("s+"), GOpen(1), Atom(".+"), GClose(1), Atom("eol")>>]>>],
      [type |-> "EXIT", patterns |-> <<
        [groups |-> 0, re |->
          <<Atom("bol"), Alt(<<<<Lit(<<"e","x","i","t">>)>>, <<Lit(<<"q","u","i","t">>)>>, <<Lit(<<"b","y","e">>)>>, <<Lit(<<"g","o","o","d","b","y","e">>)>>>>), Atom("eol")>>],
        [groups |-> 0, re |->
          <<Atom("bol"), Lit(<<"c","l","o","s","e">>), Atom("s+"), Lit(<<"t","e","r","m","i","n","a","l">>), Atom("eol")>>]>>],
      [type |-> "CREATE", patterns |-> <<
        [groups |-> 1, re |->
          <<Atom("bol"), Alt(<<<<Lit(<<"c","r","e","a","t","e">>)>>, <<Lit(<<"m","a","k","e">>)>>, <<Lit(<<"n","e","w">>)>>, <<Lit(<<"a","d","d">>)>>, <<Lit(<<"t","o","u","c","h">>)>>>>), Atom("s+"), GOpen(1), Atom(".+"), GClose(1), Atom("eol")>>]>>],
      [type |-> "DELETE", patterns |-> <<
        [groups |-> 1, re |->
          <<Atom("bol"), Alt(<<<<Lit(<<"d","e","l","e","t","e">>)>>, <<Lit(<<"r","e","m","o","v","e">>)>>, <<Lit(<<"r","m">>)>>, <<Lit(<<"t","r","a","s","h">>)>>, <<Lit(<<"e","r","a","s","e">>)>>>>), Atom("s+"), GOpen(1), Atom(".+"), GClose(1), Atom("eol")>>]>>],
      [type |-> "ORGANIZE", patterns |-> <<
        [groups |-> 1, re |->
          <<Atom("bol"), Alt(<<<<Lit(<<"o","r","g","a","n","i","z","e">>)>>, <<Lit(<<"s","o","r","t">>)>>, <<Lit(<<"c","a","t","e","g","o","r","i","z","e">>)>>, <<Lit(<<"c","l","e","a","n">>), Atom("s+"), Lit(<<"u","p">>)>>, <<Lit(<<"a","r","r","a","n","g","e">>)>>>>), Atom("s*"), GOpen(1), Atom(".*?"), GClose(1), Atom("eol")>>]>>],
      [type |-> "AI_CHAT", patterns |-> <<
        [groups |-> 0, re |->
          <<Atom("bol"), NotAhead(<<<<"r","u","n">>, <<"l","i","s","t">>, <<"s","e","a","r","c","h">>, <<"h","e","l","p">>, <<"e","x","i","t">>, <<"c","r","e","a","t","e">>, <<"d","e","l","e","t","e">>, <<"o","r","g","a","n","i","z","e">>, <<"l","s">>, <<"d","i","r">>, <<"p","y","t","h","o","n">>, <<"f","i","n","d">>, <<"g","r","e","p">>>>), Atom(".*"), Lit(<<"?">>), Atom("eol")>>],
        [groups |-> 1, re |->
          <<Atom("bol"), Alt(<<<<Lit(<<"t","e","l","l">>), Atom("s+"), Lit(<<"m","e">>)>>, <<Lit(<<"e","x","p","l","a","i","n">>)>>, <<Lit(<<"d","e","s","c","r","i","b","e">>)>>, <<Lit(<<"w","h","a","t">>)>>, <<Lit(<<"h","o","w">>)>>, <<Lit(<<"w","h","o">>)>>, <<Lit(<<"w","h","e","n">>)>>, <<Lit(<<"w","h","y">>)>>, <<Lit(<<"w","h","e","r","e">>)>>>>), Atom("s+"), GOpen(1), Atom(".+"), GClose(1), Atom("eol")>>],
        [groups |-> 1, re |->
          <<Atom("bol"), Alt(<<<<Lit(<<"c","a","n">>), Atom("s+"), Lit(<<"y","o","u">>)>>, <<Lit(<<"c","o","u","l","d">>), Atom("s+"), Lit(<<"y","o","u">>)>>, <<Lit(<<"w","o","u","l","d">>), Atom("s+"), Lit(<<"y","o","u">>)>>>>), Atom("s+"), GOpen(1), Atom(".+"), GClose(1), Atom("eol")>>]>>]
    >>

\* params that keep group 1 under one key whatever the group holds
FallbackParamsBUnguarded(intent_type, groups, text, m) ==
    IF groups = 0 THEN EmptyParams
    ELSE Put(EmptyParams, "filter",
             IF GroupSet(m, 1) THEN GroupText(text, m, 1) ELSE << >>)

\* the params the first matching pattern of intent_type yields from its groups
\* (text is the stripped input, m the match on its lowercased form)
FallbackParamsB(intent_type, groups, text, m) ==
    LET g1 == IF groups >= 1 /\ GroupSet(m, 1) THEN Some(GroupText(text, m, 1)) ELSE None
        g2 == IF groups >= 2 /\ GroupSet(m, 2) THEN Some(GroupText(text, m, 2)) ELSE None
        truthy(g) == g # None /\ g # Some(<< >>)
    IN  IF groups = 0 THEN EmptyParams
        ELSE CASE intent_type = "RUN" ->
                    LET p1 == Put(EmptyParams, "script_name", g1[1])
                    IN  IF groups > 1 /\ truthy(g2) THEN Put(p1, "args", g2[1]) ELSE p1
               [] intent_type = "LIST" ->
                    IF truthy(g1)
                    THEN IF Contains(g1[1], <<"/">>) THEN Put(EmptyParams, "path", g1[1])
                         ELSE Put(EmptyParams, "filter", g1[1])
                    ELSE EmptyParams
               [] intent_type = "SEARCH" -> Put(EmptyParams, "query", g1[1])
               [] intent_type = "HELP" ->
                    IF truthy(g1) THEN Put(EmptyParams, "topic", g1[1]) ELSE EmptyParams
               [] intent_type \in {"CREATE", "DELETE"} -> Put(EmptyParams, "name", g1[1])
               [] intent_type = "AI_CHAT" ->
                    IF truthy(g1) THEN Put(EmptyParams, "query", g1[1]) ELSE EmptyParams
               [] OTHER -> EmptyParams

\* the confidence given to every fallback pattern match, the one given to a
\* question no pattern matched, and the one given to a spaCy question
FallbackConfidenceB == Conf(6)
QuestionConfidenceB == Conf(5)
SpacyQuestionConfidenceB == Conf(7)

\* the words whose prefix makes an unmatched text a question
QuestionPrefixesB ==
    {<<"w","h","a","t">>, <<"h","o","w">>, <<"w","h","y">>, <<"w","h","e","n">>,
     <<"w","h","e","r","e">>, <<"w","h","o">>, <<"c","a","n">>, <<"c","o","u","l","d">>}

\* the first (intent type, pattern) of the table, in order, that re.match accepts
RECURSIVE FirstMatchB(_, _, _, _)
FirstMatchB(fallback_patterns, text, i, j) ==
    IF i > Len(fallback_patterns) THEN [found |-> FALSE]
    ELSE IF j > Len(fallback_patterns[i].patterns)
         THEN FirstMatchB(fallback_patterns, text, i + 1, 1)
         ELSE LET OrNext(m) ==
                      IF m.ok
                      THEN [found |-> TRUE, type |-> fallback_patterns[i].type,
                            groups |-> fallback_patterns[i].patterns[j].groups, m |-> m]
                      ELSE FirstMatchB(fallback_patterns, text, i, j + 1)
              IN  OrNext(ReMatch(fallback_patterns[i].patterns[j].re, Lower(text)))

_recognize_with_patternsB(fallback_patterns, text) ==
    LET FromMatch(r) ==
            IF r.found
            THEN Intent(r.type, FallbackConfidenceB, None,
                        FallbackParamsB(r.type, r.groups, text, r.m), text)
            ELSE IF Contains(text, <<"?">>)
                    \/ \E w \in QuestionPrefixesB : StartsWith(Lower(text), w)
            THEN Intent("AI_CHAT", QuestionConfidenceB, None,
                        Put(EmptyParams, "query", text), text)
            ELSE Intent("UNKNOWN", 0, None, EmptyParams, text)
    IN  FromMatch(FirstMatchB(fallback_patterns, text, 1, 1))

-----------------------------------------------------------------------------
(* The annotation pipeline (spaCy, an external library): what nlp(text)    *)
(* and Matcher hand to the recognizer.  The tokenizer splits on            *)
(* whitespace, splits leading and trailing punctuation off a chunk and     *)
(* splits a chunk at a hyphen between letters; the statistical annotations *)
(* (tag VB, entity labels, prepositional objects) are those of the model   *)
(* that was loaded, nlp_model, which either gives them to the words that   *)
(* can carry them or to none.                                              *)

\* the models spacy.load may return: vb - the tagger tags base-form verbs VB;
\* ner - the entity recogniser labels file-type names ORG/PRODUCT and the
\* parser attaches prepositional objects
NlpModels == [vb : BOOLEAN, ner : BOOLEAN]

PrefixPunct == {"\"", "'", "(", "["}
SuffixPunct == {"?", "!", ",", ".", ";", ":", "\"", "'", ")", "]"}

\* a chunk without its leading/trailing punctuation, split at infix hyphens
RECURSIVE SplitInfix(_, _)
SplitInfix(w, i) ==
    LET cuts == {j \in i..Len(w) : /\ w[j] = "-" /\ j > 1 /\ j < Len(w)
                                   /\ IsAlphaChar(w[j - 1]) /\ IsAlphaChar(w[j + 1])}
    IN  IF cuts = {} THEN IF w = << >> THEN << >> ELSE <<w>>
        ELSE LET j == CHOOSE x \in cuts : \A y \in cuts : x <= y
             IN  <<SubSeq(w, 1, j - 1), <<"-">>>> \o SplitInfix(SubSeq(w, j + 1, Len(w)), 1)

\* the tokens of one whitespace-delimited chunk
RECURSIVE TokenizeChunk(_)
TokenizeChunk(w) ==
    IF w = << >> THEN << >>
    ELSE IF Len(w) > 1 /\ w[1] \in PrefixPunct
         THEN <<<<w[1]>>>> \o TokenizeChunk(Tail(w))
    ELSE IF Len(w) > 1 /\ w[Len(w)] \in SuffixPunct
         THEN TokenizeChunk(SubSeq(w, 1, Len(w) - 1)) \o <<<<w[Len(w)]>>>>
    ELSE SplitInfix(w, 1)

RECURSIVE TokenizeChunks(_)
TokenizeChunks(chunks) ==
    IF chunks = << >> THEN << >>
    ELSE TokenizeChunk(Head(chunks)) \o TokenizeChunks(Tail(chunks))

\* token.text of the tokens of nlp(user_input)
Tokenize(user_input) == TokenizeChunks(Split(user_input))

\* words the tagger can tag VB (base form, imperative or after a modal)
VerbLexicon ==
    {<<"r","u","n">>, <<"e","x","e","c","u","t","e">>, <<"s","t","a","r","t">>, <<"l","a","u","n","c","h">>, <<"l","i","s","t">>, <<"s","h","o","w">>, <<"d","i","s","p","l","a","y">>,
     <<"v","i","e","w">>, <<"o","p","e","n">>, <<"s","e","a","r","c","h">>, <<"f","i","n","d">>, <<"l","o","o","k">>, <<"s","u","m","m","a","r","i","z","e">>, <<"r","e","n","a","m","e">>,
     <<"m","o","v","e">>, <<"g","i","v","e">>, <<"t","e","l","l">>, <<"e","x","p","l","a","i","n">>, <<"h","e","l","p">>, <<"g","e","t">>, <<"d","o">>, <<"u","s","e">>,
     <<"o","r","g","a","n","i","z","e">>, <<"p","r","e","v","i","e","w">>, <<"u","n","d","e","r","s","t","a","n","d">>}

\* words whose coarse part of speech is PRON
PronounLexicon ==
    {<<"i">>, <<"y","o","u">>, <<"h","e">>, <<"s","h","e">>, <<"i","t">>, <<"w","e">>, <<"t","h","e","y">>, <<"w","h","a","t">>, <<"w","h","o">>,
     <<"t","h","i","s">>, <<"t","h","a","t">>}

Determiners == {<<"t","h","e">>, <<"a">>, <<"a","n">>, <<"m","y">>, <<"t","h","i","s">>, <<"t","h","a","t">>}

\* file_type_mapping of _extract_entities_with_spacy (its keys equal its values)
file_type_mapping == {<<"p","y","t","h","o","n">>, <<"s","h","e","l","l">>, <<"m","a","r","k","d","o","w","n">>, <<"p","d","f">>, <<"t","e","x","t">>}

\* nlp(user_input): the tokens with the annotations the recognizer reads
Doc(nlp_model, user_input) ==
    LET toks == Tokenize(user_input)
        isPrep(i) == Lower(toks[i]) \in {<<"i","n">>, <<"f","r","o","m">>, <<"u","n","d","e","r">>}
        \* the object of preposition i: the next token that is no determiner
        objOf(i) == LET c == {j \in (i + 1)..Len(toks) : Lower(toks[j]) \notin Determiners}
                    IN  IF c = {} THEN 0 ELSE CHOOSE j \in c : \A k \in c : j <= k
    IN  [tokens |-> toks,
         vb |-> [i \in 1..Len(toks) |-> nlp_model.vb /\ Lower(toks[i]) \in VerbLexicon],
         pron |-> [i \in 1..Len(toks) |-> Lower(toks[i]) \in PronounLexicon],
         \* entities labelled ORG or PRODUCT (token indices)
         ents |-> {i \in 1..Len(toks) : nlp_model.ner /\ Lower(toks[i]) \in file_type_mapping},
         \* tokens whose dep_ is pobj and whose head is in/from/under
         pobj |-> {j \in 1..Len(toks) :
                     nlp_model.ner /\ \E i \in 1..Len(toks) : isPrep(i) /\ objOf(i) = j}]

-----------------------------------------------------------------------------
(* Variant A, linguistic mode                                              *)

\* _setup_spacy_patterns: the rules added to self.matcher, key by key in the
\* order of the matcher.add calls; a rule is a sequence of token constraints
_setup_spacy_patterns ==
    <<
      [key |-> "HELP", rules |-> <<
        <<[t |-> "lower", s |-> {<<"h","e","l","p">>, <<"a","s","s","i","s","t","a","n","c","e">>, <<"g","u","i","d","e">>}]>>,
        <<[t |-> "lower", s |-> {<<"h","o","w">>}], [t |-> "lower", s |-> {<<"t","o">>}]>>,
        <<[t |-> "lower", s |-> {<<"w","h","a","t">>}], [t |-> "lower", s |-> {<<"c","a","n">>, <<"d","o">>}]>>,
        <<[t |-> "lower", s |-> {<<"c","o","m","m","a","n","d","s">>, <<"u","s","a","g","e">>}]>>>>],
      [key |-> "EXIT", rules |-> <<
        <<[t |-> "lower", s |-> {<<"e","x","i","t">>, <<"q","u","i","t">>, <<"b","y","e">>, <<"g","o","o","d","b","y","e">>}]>>,
        <<[t |-> "lower", s |-> {<<"s","e","e">>}], [t |-> "lower", s |-> {<<"y","o","u">>}]>>,
        <<[t |-> "lower", s |-> {<<"g","e","t">>}], [t |-> "lower", s |-> {<<"o","u","t">>}]>>>>],
      [key |-> "RUN_SCRIPT", rules |-> <<
        <<[t |-> "lower", s |-> {<<"r","u","n">>, <<"e","x","e","c","u","t","e">>, <<"s","t","a","r","t">>, <<"l","a","u","n","c","h">>}], [t |-> "ends", s |-> {<<".","p","y">>, <<".","s","h">>}]>>,
        <<[t |-> "lower", s |-> {<<"r","u","n">>, <<"e","x","e","c","u","t","e">>, <<"s","t","a","r","t">>, <<"l","a","u","n","c","h">>}], [t |-> "is_alpha", s |-> {}]>>,
        <<[t |-> "lower", s |-> {<<"p","y","t","h","o","n">>}], [t |-> "ends", s |-> {<<".","p","y">>}]>>,
        <<[t |-> "lower", s |-> {<<"b","a","s","h">>}], [t |-> "ends", s |-> {<<".","s","h">>}]>>,
        <<[t |-> "lower", s |-> {<<"r","u","n">>, <<"e","x","e","c","u","t","e">>}], [t |-> "lower", s |-> {<<"s","e","c","u","r","i","t","y">>}], [t |-> "lower", s |-> {<<"s","c","a","n">>}]>>,
        <<[t |-> "lower", s |-> {<<"s","e","c","u","r","i","t","y">>}], [t |-> "lower", s |-> {<<"s","c","a","n">>}]>>,
        <<[t |-> "lower", s |-> {<<"r","u","n">>, <<"e","x","e","c","u","t","e">>}], [t |-> "lower", s |-> {<<"s","c","a","n">>}]>>,
        <<[t |-> "lower", s |-> {<<"r","u","n">>, <<"e","x","e","c","u","t","e">>}], [t |-> "lower", s |-> {<<"t","h","e">>, <<"a">>}], [t |-> "lower", s |-> {<<"s","e","c","u","r","i","t","y">>}], [t |-> "lower", s |-> {<<"s","c","a","n">>}]>>>>],
      [key |-> "LIST", rules |-> <<
        <<[t |-> "lower", s |-> {<<"l","i","s","t">>, <<"s","h","o","w">>, <<"d","i","s","p","l","a","y">>}], [t |-> "lower", s |-> {<<"a","l","l">>, <<"f","i","l","e","s">>, <<"s","c","r","i","p","t","s">>}]>>,
        <<[t |-> "lower", s |-> {<<"l","i","s","t">>}], [t |-> "lower", s |-> {<<"p","y","t","h","o","n">>, <<"s","h","e","l","l">>, <<"m","a","r","k","d","o","w","n">>}], [t |-> "lower", s |-> {<<"f","i","l","e","s">>}]>>,
        <<[t |-> "lower", s |-> {<<"l","s">>, <<"d","i","r">>}]>>>>],
      [key |-> "SHOW", rules |-> <<
        <<[t |-> "lower", s |-> {<<"s","h","o","w">>, <<"v","i","e","w">>, <<"d","i","s","p","l","a","y">>, <<"o","p","e","n">>}], [t |-> "ends", s |-> {<<".","p","y">>, <<".","s","h">>, <<".","m","d">>, <<".","t","x","t">>}]>>,
        <<[t |-> "lower", s |-> {<<"s","h","o","w">>, <<"v","i","e","w">>, <<"d","i","s","p","l","a","y">>, <<"o","p","e","n">>}], [t |-> "is_alpha", s |-> {}]>>,
        <<[t |-> "lower", s |-> {<<"c","o","n","t","e","n","t","s">>}], [t |-> "lower", s |-> {<<"o","f">>}]>>>>],
      [key |-> "SEARCH", rules |-> <<
        <<[t |-> "lower", s |-> {<<"s","e","a","r","c","h">>, <<"f","i","n","d">>, <<"l","o","o","k">>, <<"g","r","e","p">>}], [t |-> "lower", s |-> {<<"f","o","r">>}]>>,
        <<[t |-> "lower", s |-> {<<"s","e","a","r","c","h">>, <<"f","i","n","d">>, <<"l","o","o","k">>}], [t |-> "is_alpha", s |-> {}]>>,
        <<[t |-> "lower", s |-> {<<"f","i","n","d">>}], [t |-> "lower", s |-> {<<"f","i","l","e","s">>}], [t |-> "lower", s |-> {<<"c","o","n","t","a","i","n","i","n","g">>}]>>>>],
      [key |-> "SUMMARIZE", rules |-> <<
        <<[t |-> "lower", s |-> {<<"s","u","m","m","a","r","i","z","e">>, <<"s","u","m","m","a","r","y">>, <<"b","r","i","e","f">>}], [t |-> "ends", s |-> {<<".","m","d">>, <<".","t","x","t">>, <<".","p","d","f">>}]>>,
        <<[t |-> "lower", s |-> {<<"s","u","m","m","a","r","i","z","e">>}], [t |-> "lower", s |-> {<<"t","h","e">>, <<"t","h","i","s">>, <<"d","o","c","u","m","e","n","t">>, <<"f","i","l","e">>}]>>,
        <<[t |-> "lower", s |-> {<<"s","u","m","m","a","r","i","z","e">>}], [t |-> "is_alpha", s |-> {}]>>,
        <<[t |-> "lower", s |-> {<<"g","i","v","e">>, <<"p","r","o","v","i","d","e">>}], [t |-> "lower", s |-> {<<"s","u","m","m","a","r","y">>}]>>,
        <<[t |-> "lower", s |-> {<<"b","r","i","e","f">>}], [t |-> "lower", s |-> {<<"o","v","e","r","v","i","e","w">>}]>>,
        <<[t |-> "lower", s |-> {<<"s","u","m","m","a","r","i","z","e">>}], [t |-> "lower", s |-> {<<"t","h","e">>, <<"a">>}], [t |-> "lower", s |-> {<<"l","a","t","e","s","t">>, <<"r","e","c","e","n","t">>}]>>,
        <<[t |-> "lower", s |-> {<<"s","u","m","m","a","r","i","z","e">>}], [t |-> "lower", s |-> {<<"l","a","t","e","s","t">>, <<"r","e","c","e","n","t">>}]>>,
        <<[t |-> "lower", s |-> {<<"s","h","o","w">>, <<"g","e","t">>}], [t |-> "lower", s |-> {<<"s","u","m","m","a","r","y">>}], [t |-> "lower", s |-> {<<"o","f">>}], [t |-> "lower", s |-> {<<"l","a","t","e","s","t">>, <<"r","e","c","e","n","t">>}]>>>>],
      [key |-> "RENAME", rules |-> <<
        <<[t |-> "lower", s |-> {<<"r","e","n","a","m","e">>, <<"m","o","v","e">>}], [t |-> "is_alpha", s |-> {}], [t |-> "lower", s |-> {<<"t","o">>}]>>,
        <<[t |-> "lower", s |-> {<<"m","v">>}], [t |-> "is_alpha", s |-> {}]>>>>],
      [key |-> "AI_CHAT", rules |-> <<
        <<[t |-> "lower", s |-> {<<"w","h","y">>, <<"h","o","w">>, <<"w","h","e","n">>, <<"w","h","e","r","e">>, <<"w","h","o">>, <<"w","h","a","t">>}]>>,
        <<[t |-> "lower", s |-> {<<"c","a","n">>, <<"c","o","u","l","d">>, <<"w","o","u","l","d">>, <<"s","h","o","u","l","d">>}], [t |-> "lower", s |-> {<<"y","o","u">>}]>>,
        <<[t |-> "lower", s |-> {<<"t","e","l","l">>, <<"e","x","p","l","a","i","n">>, <<"d","e","s","c","r","i","b","e">>}]>>,
        <<[t |-> "lower", s |-> {<<"i">>}], [t |-> "lower", s |-> {<<"n","e","e","d">>, <<"w","a","n","t">>, <<"w","o","u","l","d">>, <<"l","i","k","e">>}]>>,
        <<[t |-> "pron", s |-> {}], [t |-> "lower", s |-> {<<"i","s">>, <<"a","r","e">>, <<"w","a","s">>, <<"w","e","r","e">>}]>>,
        <<[t |-> "lower", s |-> {<<"a","d","v","i","c","e">>, <<"t","i","p">>, <<"t","i","p","s">>, <<"h","e","l","p">>, <<"s","u","g","g","e","s","t","i","o","n">>, <<"r","e","c","o","m","m","e","n","d">>}]>>>>]
    >>

\* one token constraint of a matcher rule
TokenSatisfies(doc, i, c) ==
    CASE c.t = "lower" -> Lower(doc.tokens[i]) \in c.s
      [] c.t = "ends" -> \E suf \in c.s : EndsWith(doc.tokens[i], suf)
      [] c.t = "is_alpha" -> \A j \in 1..Len(doc.tokens[i]) : IsAlphaChar(doc.tokens[i][j])
      [] c.t = "pron" -> doc.pron[i]

\* self.matcher(doc) for one key: the spans <<start, end>> some rule of the key
\* matches (the matcher reports a span once per key)
KeyMatches(doc, rules) ==
    {sp \in (1..Len(doc.tokens)) \X (1..Len(doc.tokens)) :
        \E r \in 1..Len(rules) :
            /\ sp[2] - sp[1] + 1 = Len(rules[r])
            /\ \A k \in 1..Len(rules[r]) : TokenSatisfies(doc, sp[1] + k - 1, rules[r][k])}

\* _map_spacy_intent
_map_spacy_intent(spacy_intent_name) ==
    IF spacy_intent_name \in {"HELP", "EXIT", "RUN_SCRIPT", "LIST", "SHOW", "SEARCH",
                              "SUMMARIZE", "RENAME", "AI_CHAT"}
    THEN spacy_intent_name ELSE "UNKNOWN"

\* the score one pattern match adds (0.8)
MatchScore == Conf(8)

\* the first loop of _recognize_with_spacy: intent_scores after the matches, as
\* a function on the keys that matched
MatchScores(doc, matcher) ==
    LET hit == {k \in 1..Len(matcher) : KeyMatches(doc, matcher[k].rules) # {}}
    IN  [t \in {_map_spacy_intent(matcher[k].key) : k \in hit} |->
            LET k == CHOOSE k \in hit : _map_spacy_intent(matcher[k].key) = t
            IN  Cardinality(KeyMatches(doc, matcher[k].rules)) * MatchScore]

\* the order in which the keys enter intent_scores: the matcher reports the
\* matches by end token, then start token, then key
FirstMatchRank(doc, matcher, k) ==
    LET rank(m) == (m[2] * (Len(doc.tokens) + 1) + m[1]) * (Len(matcher) + 1) + k
        ranks == {rank(m) : m \in KeyMatches(doc, matcher[k].rules)}
    IN  CHOOSE r \in ranks : \A q \in ranks : r <= q

\* scores[k] += amount if k is in the dict
AddIfPresent(scores, keys, amount) ==
    [t \in DOMAIN scores |-> IF t \in keys THEN scores[t] + amount ELSE scores[t]]

\* scores[k] = scores.get(k, 0) + amount
AddOrCreate(scores, k, amount) ==
    [t \in (DOMAIN scores) \cup {k} |->
        IF t = k THEN (IF k \in DOMAIN scores THEN scores[k] ELSE 0) + amount
        ELSE scores[t]]

\* _find_file_entities: token texts, in order
RECURSIVE FileEntitiesFrom(_, _)
FileEntitiesFrom(tokens, i) ==
    IF i > Len(tokens) THEN << >>
    ELSE LET tx == tokens[i]
             fileLike == /\ tx # << >>
                         /\ tx[1] \in LowerLetters \cup UpperLetters \cup {"_", "-"}
                         /\ \A j \in 1..Len(tx) :
                               tx[j] \in LowerLetters \cup UpperLetters \cup Digits \cup {"_", "-"}
                         /\ (Contains(tx, <<"_">>) \/ Contains(tx, <<"-">>))
         IN  (IF (\E ext \in file_extensions : EndsWith(tx, ext)) \/ fileLike
              THEN <<tx>> ELSE << >>) \o FileEntitiesFrom(tokens, i + 1)

_find_file_entities(doc) == FileEntitiesFrom(doc.tokens, 1)

\* _enhance_scores_with_linguistics: intent_scores afterwards
_enhance_scores_with_linguistics(doc, intent_scores, user_input) ==
    LET question_words == {<<"w","h","a","t">>, <<"w","h","y">>, <<"h","o","w">>, <<"w","h","e","n">>, <<"w","h","e","r","e">>, <<"w","h","o">>, <<"w","h","i","c","h">>}
        help_indicators == {<<"p","l","e","a","s","e">>, <<"c","a","n"," ","y","o","u">>, <<"c","o","u","l","d"," ","y","o","u">>, <<"h","e","l","p"," ","m","e">>, <<"i"," ","n","e","e","d">>}
        s1 == IF \E i \in 1..Len(doc.tokens) : Lower(doc.tokens[i]) \in question_words
              THEN AddOrCreate(intent_scores, "AI_CHAT", Conf(4)) ELSE intent_scores
        s2 == IF \E i \in 1..Len(doc.tokens) : doc.vb[i]
              THEN AddIfPresent(s1, {"RUN_SCRIPT", "LIST", "SHOW", "SEARCH"}, Conf(2)) ELSE s1
        s3 == IF _find_file_entities(doc) # << >>
              THEN AddIfPresent(s2, {"RUN_SCRIPT", "SHOW", "SUMMARIZE"}, Conf(3)) ELSE s2
    IN  IF \E phrase \in help_indicators : Contains(Lower(user_input), phrase)
        THEN AddOrCreate(s3, "AI_CHAT", Conf(3)) ELSE s3

\* _analyze_for_ai_chat: <<intent type, confidence>>
_analyze_for_ai_chat(user_input) ==
    LET low == Lower(user_input)
        words(ws) == Alt([i \in 1..Len(ws) |-> <<Lit(ws[i])>>])
        conversational_patterns ==
          << <<Atom("b"), Lit(<<"i">>), Atom("s+"),
               words(<<<<"a","m">>, <<"w","a","s">>, <<"h","a","v","e">>, <<"n","e","e","d">>, <<"w","a","n","t">>, <<"w","o","u","l","d">>, <<"l","i","k","e">>>>)>>,
             <<Atom("b"), Lit(<<"c","a","n">>), Atom("s+"), Lit(<<"y","o","u">>)>>,
             <<Atom("b"), Lit(<<"w","h","a","t">>), Atom("s+"), words(<<<<"i","s">>, <<"a","r","e">>, <<"d","o">>, <<"d","o","e","s">>>>)>>,
             <<Atom("b"), Lit(<<"h","o","w">>), Atom("s+"), words(<<<<"d","o">>, <<"c","a","n">>, <<"s","h","o","u","l","d">>>>)>>,
             <<Atom("b"), Lit(<<"t","e","l","l">>), Atom("s+"), Lit(<<"m","e">>)>>,
             <<Atom("b"), Lit(<<"e","x","p","l","a","i","n">>)>>,
             <<Atom("b"), Lit(<<"a","d","v","i","c","e">>)>>,
             <<Atom("b"), Lit(<<"t","i","p">>)>>,
             <<Atom("b"), Lit(<<"h","e","l","p">>), Atom("s+"), Lit(<<"w","i","t","h">>)>> >>
        uncertainty_words == {<<"m","a","y","b","e">>, <<"p","e","r","h","a","p","s">>, <<"p","o","s","s","i","b","l","y">>, <<"m","i","g","h","t">>, <<"c","o","u","l","d">>, <<"u","n","s","u","r","e">>}
        Decide(conversational_score) ==
            IF conversational_score >= Conf(4)
            THEN <<"AI_CHAT",
                   IF conversational_score < Conf(9) THEN conversational_score ELSE Conf(9)>>
            ELSE <<"UNKNOWN", conversational_score>>
    IN  Decide(Cardinality({i \in 1..Len(conversational_patterns) :
                              ReSearch(conversational_patterns[i], low).ok}) * Conf(2)
               + (IF EndsWith(Strip(user_input), <<"?">>) THEN Conf(3) ELSE 0)
               + (IF \E w \in uncertainty_words : Contains(low, w) THEN Conf(2) ELSE 0))

\* the value the last element of a set of token indices gives, else the default
LastOf(idx) == CHOOSE i \in idx : \A j \in idx : j <= i
FirstOf(idx) == CHOOSE i \in idx : \A j \in idx : i <= j

\* parameters: a key of `extra` is copied unless `params` has it
MergeMissing(params, extra) ==
    [k \in (DOMAIN params) \cup (DOMAIN extra) |->
        IF k \in DOMAIN params THEN params[k] ELSE extra[k]]

\* _extract_entities_with_spacy: [target, parameters]
_extract_entities_with_spacy(doc, user_input) ==
    LET scope_words == {<<"a","l","l">>, <<"e","v","e","r","y">>, <<"r","e","c","e","n","t">>, <<"l","a","t","e","s","t">>, <<"n","e","w">>}
        scoped == {i \in 1..Len(doc.tokens) : Lower(doc.tokens[i]) \in scope_words}
        p0 == EmptyParams
        p1 == IF doc.ents # {} THEN Put(p0, "file_type", Lower(doc.tokens[LastOf(doc.ents)])) ELSE p0
        p2 == IF scoped # {} THEN Put(p1, "scope", Lower(doc.tokens[FirstOf(scoped)])) ELSE p1
        p3 == IF doc.pobj # {} THEN Put(p2, "directory", doc.tokens[LastOf(doc.pobj)]) ELSE p2
        Target(file_entities) ==
            IF file_entities # << >> THEN Some(file_entities[1])
            ELSE _extract_file_target_regex(user_input)
        Found(target) ==
            [target |-> target,
             parameters |-> MergeMissing(p3, _extract_parameters_regex(user_input, target))]
    IN  Found(Target(_find_file_entities(doc)))

\* a linguistic branch that returns the best score as it is, without
\* min(intent_scores[best_intent], 1.0)
CapConfidenceOff(score) == score

\* min(intent_scores[best_intent], 1.0)
CapConfidence(score) == IF score < Conf(10) THEN score ELSE Conf(10)

\* max(intent_scores.keys(), key=...): the largest score; among equal scores
\* the key that entered the dict first (a key created by the bonuses entered last)
BestIntent(doc, matcher, matched, intent_scores) ==
    LET rank(t) == IF t \in DOMAIN matched
                   THEN FirstMatchRank(doc, matcher,
                            CHOOSE k \in 1..Len(matcher) :
                                /\ _map_spacy_intent(matcher[k].key) = t
                                /\ KeyMatches(doc, matcher[k].rules) # {})
                   ELSE -1
        top == {t \in DOMAIN intent_scores : \A u \in DOMAIN intent_scores :
                    intent_scores[u] <= intent_scores[t]}
        early == {t \in top : t \in DOMAIN matched}
    IN  IF early = {} THEN CHOOSE t \in top : TRUE
        ELSE CHOOSE t \in early : \A u \in early : rank(t) <= rank(u)

\* the local dict intent_scores of _recognize_with_spacy after the matcher
\* loop (matched) and after the linguistic bonuses (intent_scores)
SpacyScores(doc, matcher, user_input) ==
    LET matched == MatchScores(doc, matcher)
    IN  [matched |-> matched,
         intent_scores |-> _enhance_scores_with_linguistics(doc, matched, user_input)]

\* the rest of _recognize_with_spacy: entities, best kind, cap, threshold
PickSpacy(doc, matcher, scores, user_input) ==
    LET Capped(b) == <<b, CapConfidence(scores.intent_scores[b])>>
        Build(ents, best) ==
            IF best[2] < UnknownBelow
            THEN Intent("UNKNOWN", best[2], None, EmptyParams, user_input)
            ELSE Intent(best[1], best[2], ents.target, ents.parameters, user_input)
    IN  Build(_extract_entities_with_spacy(doc, user_input),
              IF DOMAIN scores.intent_scores # {}
              THEN Capped(BestIntent(doc, matcher, scores.matched, scores.intent_scores))
              ELSE _analyze_for_ai_chat(user_input))

\* _recognize_with_spacy once nlp(user_input) has returned doc
_recognize_with_spacy(doc, matcher, user_input) ==
    PickSpacy(doc, matcher, SpacyScores(doc, matcher, user_input), user_input)

-----------------------------------------------------------------------------
(* Variant B, linguistic mode                                              *)

\* the rules _setup_spacy_patterns of variant B adds when it is allowed to:
\* cs are the leading token constraints, open says that {"OP": "?"}, {"OP": "*"}
\* follow (any further tokens)
MatcherRulesB ==
    LET one(ws) == <<[t |-> "lower", s |-> ws]>>
        rule(cs, open) == [cs |-> cs, open |-> open]
    IN  << [key |-> "RUN", rules |-> <<
              rule(one({<<"r","u","n">>}), TRUE), rule(one({<<"e","x","e","c","u","t","e">>}), TRUE),
              rule(one({<<"s","t","a","r","t">>}), TRUE),
              rule(<<[t |-> "lower", s |-> {<<"p","y","t","h","o","n">>, <<"p","y">>}],
                     [t |-> "ends", s |-> {<<".","p","y">>}]>>, FALSE)>>],
           [key |-> "LIST", rules |-> <<
              rule(one({<<"l","i","s","t">>}), TRUE), rule(one({<<"s","h","o","w">>}), TRUE),
              rule(one({<<"d","i","s","p","l","a","y">>}), TRUE), rule(one({<<"l","s">>, <<"d","i","r">>}), TRUE)>>],
           [key |-> "SEARCH", rules |-> <<
              rule(one({<<"s","e","a","r","c","h">>}), TRUE), rule(one({<<"f","i","n","d">>}), TRUE),
              rule(one({<<"l","o","c","a","t","e">>}), TRUE), rule(one({<<"g","r","e","p">>, <<"f","i","l","t","e","r">>}), TRUE)>>],
           [key |-> "HELP", rules |-> <<
              rule(one({<<"h","e","l","p">>}), TRUE),
              rule(one({<<"m","a","n">>, <<"m","a","n","u","a","l">>, <<"g","u","i","d","e">>}), TRUE),
              rule(<<[t |-> "text", s |-> {<<"-","-","h","e","l","p">>}]>>, FALSE)>>],
           [key |-> "EXIT", rules |-> <<
              rule(one({<<"e","x","i","t">>, <<"q","u","i","t">>, <<"b","y","e">>, <<"g","o","o","d","b","y","e">>}), FALSE),
              rule(<<[t |-> "lower", s |-> {<<"c","l","o","s","e">>}],
                     [t |-> "lower", s |-> {<<"t","e","r","m","i","n","a","l">>}]>>, FALSE)>>],
           [key |-> "CREATE", rules |-> <<
              rule(one({<<"c","r","e","a","t","e">>, <<"m","a","k","e">>, <<"n","e","w">>}), TRUE), rule(one({<<"a","d","d">>}), TRUE),
              rule(one({<<"t","o","u","c","h">>}), TRUE)>>],
           [key |-> "DELETE", rules |-> <<
              rule(one({<<"d","e","l","e","t","e">>, <<"r","e","m","o","v","e">>, <<"r","m">>}), TRUE), rule(one({<<"t","r","a","s","h">>}), TRUE),
              rule(one({<<"e","r","a","s","e">>}), TRUE)>>],
           [key |-> "ORGANIZE", rules |-> <<
              rule(one({<<"o","r","g","a","n","i","z","e">>, <<"s","o","r","t">>, <<"c","a","t","e","g","o","r","i","z","e">>}), TRUE),
              rule(<<[t |-> "lower", s |-> {<<"c","l","e","a","n">>}], [t |-> "lower", s |-> {<<"u","p">>}]>>, TRUE),
              rule(one({<<"a","r","r","a","n","g","e">>}), TRUE)>>] >>

\* _setup_spacy_patterns of variant B: what self.matcher holds afterwards.  The
\* method returns at once unless self.spacy_available is already set
_setup_spacy_patternsB(spacy_available) ==
    IF ~spacy_available THEN << >> ELSE MatcherRulesB

TokenSatisfiesB(doc, i, c) ==
    IF c.t = "text" THEN doc.tokens[i] \in c.s ELSE TokenSatisfies(doc, i, c)

\* the token positions at which a rule of the key starts a match, with the
\* length of the shortest match there
KeyStartsB(doc, rules) ==
    {sl \in (1..Len(doc.tokens)) \X (1..Len(doc.tokens)) :
        \E r \in 1..Len(rules) :
            /\ sl[2] = Len(rules[r].cs)
            /\ sl[1] + sl[2] - 1 <= Len(doc.tokens)
            /\ \A k \in 1..Len(rules[r].cs) :
                  TokenSatisfiesB(doc, sl[1] + k - 1, rules[r].cs[k])}

\* max(matches, key=lambda x: x[1]): the key of the first reported match among
\* those that start last
BestMatchKeyB(doc, matcher) ==
    LET all == {<<k, sl[1], sl[2]>> : k \in 1..Len(matcher), sl \in (1..Len(doc.tokens)) \X (1..Len(doc.tokens))}
        ms == {m \in all : <<m[2], m[3]>> \in KeyStartsB(doc, matcher[m[1]].rules)}
        late == {m \in ms : \A n \in ms : n[2] <= m[2]}
        rank(m) == m[3] * (Len(matcher) + 1) + m[1]
        best == CHOOSE m \in late : \A n \in late : rank(m) <= rank(n)
    IN  IF ms = {} THEN None ELSE Some(matcher[best[1]].key)

\* _extract_entities_from_doc
_extract_entities_from_doc(doc) ==
    LET n == Len(doc.tokens)
        scripts == {i \in 1..n : EndsWith(doc.tokens[i], <<".","p","y">>) \/ EndsWith(doc.tokens[i], <<".","s","h">>)}
        paths == {i \in 1..n : StartsWith(doc.tokens[i], <<".","/">>) \/ StartsWith(doc.tokens[i], <<"/">>)}
        file_types == {<<"p","y","t","h","o","n">>, <<"s","h","e","l","l">>, <<"t","e","x","t">>, <<"m","a","r","k","d","o","w","n">>, <<"m","d">>, <<"p","y">>, <<"s","h">>, <<"t","x","t">>}
        typed == {i \in 1..n : Lower(doc.tokens[i]) \in file_types}
        p1 == IF scripts # {} THEN Put(EmptyParams, "script_name", doc.tokens[FirstOf(scripts)])
              ELSE EmptyParams
        p2 == IF paths # {} THEN Put(p1, "path", doc.tokens[FirstOf(paths)]) ELSE p1
    IN  IF typed # {} THEN Put(p2, "file_type", Lower(doc.tokens[FirstOf(typed)])) ELSE p2

\* _extract_params_from_text
_extract_params_from_text(intent_type, text) ==
    LET words == Split(text)
        rest == IF Len(words) > 1 THEN JoinWords(Tail(words)) ELSE << >>
        WithScript(script_name) ==
            LET at == FirstOf({i \in 1..Len(text) : MatchAt(text, script_name, i)})
                args == Strip(SubSeq(text, at + Len(script_name), Len(text)))
                p1 == Put(EmptyParams, "script_name", script_name)
            IN  IF args # << >> THEN Put(p1, "args", args) ELSE p1
        FromSearch(m) == IF ~m.ok THEN EmptyParams ELSE WithScript(MatchText(text, m))
    IN  CASE intent_type = "RUN" ->
               FromSearch(ReSearch(<<Atom("S+"), Lit(<<".">>), Alt(<< <<Lit(<<"p","y">>)>>, <<Lit(<<"s","h">>)>> >>)>>,
                                   text))
          [] intent_type = "LIST" ->
               IF rest = << >> THEN EmptyParams
               ELSE IF Contains(rest, <<"/">>) THEN Put(EmptyParams, "path", rest)
               ELSE Put(EmptyParams, "filter", rest)
          [] intent_type = "SEARCH" ->
               IF rest = << >> THEN EmptyParams ELSE Put(EmptyParams, "query", rest)
          [] OTHER -> EmptyParams

\* params.update(additional_params)
Update(params, extra) ==
    [k \in (DOMAIN params) \cup (DOMAIN extra) |->
        IF k \in DOMAIN extra THEN extra[k] ELSE params[k]]

\* the words that make a text without a pattern match a question
QuestionWordsB ==
    {<<"w","h","a","t">>, <<"h","o","w">>, <<"w","h","o">>, <<"w","h","e","n">>, <<"w","h","y">>, <<"w","h","e","r","e">>, <<"c","a","n">>, <<"c","o","u","l","d">>, <<"w","o","u","l","d">>}

\* _recognize_with_spacy of variant B once nlp(text) has returned doc
_recognize_with_spacyB(doc, matcher, text) ==
    LET FromKey(key) ==
            IF key = None
            THEN IF EndsWith(text, <<"?">>)
                    \/ \E i \in 1..Len(doc.tokens) : Lower(doc.tokens[i]) \in QuestionWordsB
                 THEN Intent("AI_CHAT", SpacyQuestionConfidenceB, None, EmptyParams, text)
                 ELSE Intent("UNKNOWN", 0, None, EmptyParams, text)
            ELSE LET known == key[1] \in IntentTypeB
                     intent_type == IF known THEN key[1] ELSE "UNKNOWN"
                 IN  Intent(intent_type, IF known THEN Conf(8) ELSE Conf(3), None,
                            Update(_extract_entities_from_doc(doc),
                                   _extract_params_from_text(intent_type, text)),
                            text)
    IN  FromKey(BestMatchKeyB(doc, matcher))

-----------------------------------------------------------------------------
(* The engine: construction and recognize                                  *)

\* how spacy.load("en_core_web_sm") can end: it returns a pipeline, the model
\* is not installed (OSError), or it fails in any other way
LoadOutcomes == {"ok", "OSError", "Other"}

Variants == {"A", "B"}

\* an IntentRecognizer that has not been constructed
Unbuilt ==
    [variant |-> "A", state |-> "unbuilt", load |-> "none", use_spacy |-> FALSE,
     nlp |-> None, matcher |-> "unset", patterns |-> "unset"]

\* IntentRecognizer.__init__ of variant A; load records how the load ended
InitA(has_spacy, outcome, nlp_model) ==
    IF has_spacy /\ outcome = "ok"
    THEN [variant |-> "A", state |-> "ready", load |-> "ok", use_spacy |-> TRUE,
          nlp |-> Some(nlp_model), matcher |-> "rules", patterns |-> "unset"]
    ELSE [variant |-> "A", state |-> "ready",
          load |-> IF has_spacy THEN outcome ELSE "ImportError",
          use_spacy |-> FALSE, nlp |-> None, matcher |-> "unset", patterns |-> "built"]

\* IntentRecognizer.__init__ of variant B: only OSError and ImportError are
\* caught; any other failure of the load leaves the constructor as an exception
InitB(has_spacy, outcome, nlp_model) ==
    CASE ~has_spacy ->
           [variant |-> "B", state |-> "ready", load |-> "ImportError", use_spacy |-> FALSE,
            nlp |-> None, matcher |-> "unset", patterns |-> "built"]
      [] has_spacy /\ outcome = "ok" ->
           [variant |-> "B", state |-> "ready", load |-> "ok", use_spacy |-> TRUE,
            nlp |-> Some(nlp_model),
            matcher |-> IF _setup_spacy_patternsB(FALSE) = << >> THEN "empty" ELSE "rules",
            patterns |-> "built"]
      [] has_spacy /\ outcome = "OSError" ->
           [variant |-> "B", state |-> "ready", load |-> "OSError", use_spacy |-> FALSE,
            nlp |-> None, matcher |-> "unset", patterns |-> "built"]
      [] OTHER ->
           [variant |-> "B", state |-> "raised", load |-> outcome, use_spacy |-> FALSE,
            nlp |-> None, matcher |-> "unset", patterns |-> "unset"]

\* create_intent_recognizer() / IntentRecognizer()
create_intent_recognizer(variant, has_spacy, outcome, nlp_model) ==
    IF variant = "A" THEN InitA(has_spacy, outcome, nlp_model)
    ELSE InitB(has_spacy, outcome, nlp_model)

\* the number of times spacy.load("en_core_web_sm") loads the model when it is
\* called once: the import must succeed and the load must return a pipeline
LoadsOfInit(has_spacy, outcome) == IF has_spacy /\ outcome = "ok" THEN 1 ELSE 0

\* self.matcher and the pattern table, as the engine holds them
MatcherOf(eng) ==
    IF eng.matcher # "rules" THEN << >>
    ELSE IF eng.variant = "A" THEN _setup_spacy_patterns ELSE MatcherRulesB

PatternsOf(eng) ==
    IF eng.patterns # "built" THEN << >>
    ELSE IF eng.variant = "A" THEN _build_intent_patterns ELSE _setup_fallback_patterns

\* the length above which the pipeline refuses a text (nlp.max_length, scaled
\* down): self.nlp(text) raises ValueError for a longer one
NlpMaxLength == 74

PipelineRaises(text) == Len(text) > NlpMaxLength

\* recognize up to the point where its local values are computed.  Variant A:
\* the empty test, then the local dict intent_scores of the mode's branch.
\* Variant B: the strip, the empty test, then the local intent of the try block
RecognizeLocals(eng, user_input) ==
    IF eng.variant = "A"
    THEN IF user_input = << >> \/ Strip(user_input) = << >>
         THEN [at |-> "empty", text |-> user_input]
         ELSE IF eng.use_spacy
         THEN IF PipelineRaises(user_input)
              THEN [at |-> "raised", text |-> user_input]
              ELSE [at |-> "spacy", text |-> user_input,
                    scores |-> SpacyScores(Doc(eng.nlp[1], user_input), MatcherOf(eng),
                                           user_input)]
         ELSE [at |-> "patterns", text |-> user_input,
               scores |-> PatternScores(PatternsOf(eng), user_input)]
    ELSE LET text == Strip(user_input)
         IN  IF text = << >> THEN [at |-> "empty", text |-> text]
             ELSE IF eng.use_spacy
             THEN IF PipelineRaises(text)
                  THEN [at |-> "caught", text |-> text]
                  ELSE [at |-> "spacy", text |-> text,
                        intent |-> _recognize_with_spacyB(Doc(eng.nlp[1], text),
                                                          MatcherOf(eng), text)]
             ELSE [at |-> "patterns", text |-> text]

\* the rest of recognize, from the local values to the returned Intent
RecognizeFinish(eng, locals) ==
    IF eng.variant = "A"
    THEN CASE locals.at = "empty" -> Intent("UNKNOWN", 0, None, EmptyParams, locals.text)
           [] locals.at = "raised" -> Raised
           [] locals.at = "spacy" ->
                PickSpacy(Doc(eng.nlp[1], locals.text), MatcherOf(eng), locals.scores,
                          locals.text)
           [] OTHER -> PickPattern(PatternsOf(eng), locals.scores, locals.text)
    ELSE CASE locals.at = "empty" -> Intent("UNKNOWN", 0, None, EmptyParams, locals.text)
           [] locals.at = "spacy" /\ locals.intent.type # "UNKNOWN" -> locals.intent
           [] OTHER -> _recognize_with_patternsB(PatternsOf(eng), locals.text)

\* IntentRecognizer.recognize
recognize(eng, user_input) == RecognizeFinish(eng, RecognizeLocals(eng, user_input))

\* which matchers a call runs: the pipeline with the linguistic matcher, the
\* fallback scorer
InvokedFrom(eng, locals) ==
    CASE locals.at = "empty" -> {}
      [] locals.at = "raised" -> {"nlp"}
      [] locals.at = "caught" -> {"nlp", "patterns"}
      [] locals.at = "patterns" -> {"patterns"}
      [] eng.variant = "B" /\ locals.intent.type = "UNKNOWN" -> {"nlp", "patterns"}
      [] OTHER -> {"nlp"}

\* whether the returned Intent is the one built from a hit of the linguistic
\* matcher: its kind is a key of intent_scores set in the matcher loop
\* (variant A), the matcher reported a match (variant B)
ByMatch(eng, locals, result) ==
    /\ locals.at = "spacy"
    /\ result.type # "UNKNOWN"
    /\ IF eng.variant = "A" THEN result.type \in DOMAIN locals.scores.matched
       ELSE /\ result = locals.intent
            /\ BestMatchKeyB(Doc(eng.nlp[1], locals.text), MatcherOf(eng)) # None

\* one call of recognize: what it returns and which matchers it ran
Call(eng, user_input) ==
    LET Outcome(locals) ==
            LET Made(result) ==
                    [locals |-> locals, result |-> result,
                     invoked |-> InvokedFrom(eng, locals),
                     by_match |-> ByMatch(eng, locals, result)]
            IN  Made(RecognizeFinish(eng, locals))
    IN  Outcome(RecognizeLocals(eng, user_input))

\* the pattern definitions as they may be written: sound; with a first regular
\* expression that does not compile; with a token pattern that matcher.add
\* refuses
Libraries == {"sound", "regex", "token_pattern"}

\* IntentRecognizer() over the given definitions.  Neither __init__ compiles a
\* regular expression: the tables hold plain strings.  In variant A
\* matcher.add runs inside the try of __init__, whose `except Exception`
\* turns its error into fallback mode; in variant B _setup_spacy_patterns
\* returns before its first matcher.add, spacy_available being still False
IntentRecognizerFrom(lib, variant, has_spacy, outcome, nlp_model) ==
    IF lib = "token_pattern" /\ variant = "A" /\ has_spacy /\ outcome = "ok"
    THEN [InitA(has_spacy, "Other", nlp_model) EXCEPT !.load = "ok"]
    ELSE create_intent_recognizer(variant, has_spacy, outcome, nlp_model)

\* a recognize that downgrades the engine to fallback mode when the pipeline
\* refuses the text
AfterRecognizeDowngrade(eng, user_input) ==
    IF eng.use_spacy /\ PipelineRaises(user_input)
    THEN [eng EXCEPT !.use_spacy = FALSE, !.nlp = None, !.patterns = "built"]
    ELSE eng

\* the fields of the engine after a call of recognize: the method assigns to
\* no attribute of self
AfterRecognize(eng, user_input) == eng

-----------------------------------------------------------------------------
(* Inputs                                                                  *)

\* texts that each exercise a branch of the recognizers
Corpus ==
    {<<"h","e","l","p">>,
     <<"e","x","i","t">>,
     <<"r","u","n"," ","t","e","s","t","_","s","c","r","i","p","t",".","p","y">>,
     <<"l","i","s","t"," ","f","i","l","e","s">>,
     <<"W","h","a","t"," ","c","a","n"," ","y","o","u"," ","d","o","?">>,
     <<"e","x","i","t"," ","q","u","i","t"," ","b","y","e"," ","g","o","o","d","b","y","e">>,
     <<"s","h","o","w"," ","m","e"," ","h","o","w">>,
     <<"r","u","n"," ","o","r","g","a","n","i","z","e","_","a","i","_","s","c","r","i","p","t","s",".","p","y">>,
     <<"l","i","s","t"," ","a","l","l"," ","p","y","t","h","o","n"," ","s","c","r","i","p","t","s">>,
     <<"s","u","m","m","a","r","i","z","e"," ","t","h","e"," ","l","a","t","e","s","t"," ","R","E","A","D","M","E">>,
     <<"a","s","d","k","j","a","l","k","s","d","j">>,
     <<" "," ">>,
     << >>,
     <<" ","h","e","l","p"," ">>,
     <<"l","i","s","t"," ","a","l","l"," ","P","D","F"," ","f","i","l","e","s">>,
     <<"s","e","a","r","c","h"," ","f","o","r"," ","p","y","t","h","o","n"," ","f","i","l","e","s">>,
     <<"r","e","n","a","m","e"," ","o","l","d","_","f","i","l","e",".","t","x","t"," ","t","o"," ","n","e","w","_","f","i","l","e",".","t","x","t">>,
     <<"p","r","e","v","i","e","w"," ","d","o","c","u","m","e","n","t",".","m","d">>,
     <<"h","o","w"," ","d","o"," ","I"," ","g","e","t"," ","s","t","a","r","t","e","d","?">>,
     <<"t","e","l","l"," ","m","e"," ","a","b","o","u","t"," ","t","h","i","s"," ","r","e","p","o","s","i","t","o","r","y">>,
     <<"w","h","a","t"," ","i","s"," ","t","h","e"," ","b","e","s","t"," ","w","a","y"," ","t","o"," ","o","r","g","a","n","i","z","e"," ","s","c","r","i","p","t","s","?">>,
     <<"q","u","i","t">>,
     <<"b","y","e">>,
     <<"i","n","s","t","a","l","l"," ","n","e","w"," ","t","o","o","l","s">>,
     <<"f","i","n","d"," ","f","i","l","e","s"," ","i","n"," ","d","o","c","s">>,
     <<"s","h","o","w"," ","\"","m","y"," ","n","o","t","e","s","\"">>,
     <<"o","p","e","n"," ","d","a","t","a","-","c","l","e","a","n","e","r"," ","n","o","w">>,
     <<"m","o","v","e"," ","a"," ","t","o"," ","b">>,
     <<"H","o","w"," ","d","o"," ","I"," ","u","s","e"," ","t","h","i","s"," ","s","y","s","t","e","m","?">>,
     <<"C","a","n"," ","y","o","u"," ","h","e","l","p"," ","m","e"," ","u","n","d","e","r","s","t","a","n","d"," ","t","h","i","s"," ","r","e","p","o","s","i","t","o","r","y","?">>,
     <<"p","r","e","v","i","e","w"," ","t","h","e"," ","m","a","i","n"," ","c","o","n","f","i","g","u","r","a","t","i","o","n"," ","f","i","l","e","s">>,
     <<"l","s">>,
     <<"w","h","y"," ","h","o","w">>,
     <<"p","e","e","k"," ","a","t"," ","i","t">>,
     <<"g","i","v","e"," ","m","e"," ","a"," ","b","r","i","e","f"," ","s","u","m","m","a","r","y"," ","o","v","e","r","v","i","e","w"," ","o","f"," ","t","h","e"," ","m","e","e","t","i","n","g"," ","n","o","t","e","s"," ","d","o","c","u","m","e","n","t"," ","f","i","l","e"," ","t","e","x","t">>,
     <<"r","u","n">>,
     <<"e","x","e","c","u","t","e"," ","s","t","a","r","t"," ","l","a","u","n","c","h"," ","r","u","n"," ","s","c","r","i","p","t",".","p","y"," ","p","y","t","h","o","n"," ","s","h","e","l","l"," ",".","s","h">>,
     <<"l","o","o","k"," ","f","o","r"," ","x">>,
     <<"s","h","o","w"," ","s","h","e","l","l"," ","s","c","r","i","p","t","s">>,
     <<"f","i","n","d"," ","m","a","r","k","d","o","w","n"," ","d","o","c","u","m","e","n","t","s">>,
     <<"s","e","a","r","c","h"," ","P","D","F"," ","f","i","l","e","s">>,
     <<"\t">>,
     <<" ","e","x","i","t">>,
     <<"w","h","i","c","h"," ","o","n","e">>,
     <<"w","h","a","t"," ","n","o","w">>,
     <<"l","i","s","t"," ","a","l","l"," ","f","i","l","e","s">>,
     <<"h","e","l","p"," ","m","e">>,
     <<"e","x","i","t"," ","h","e","l","p">>,
     <<"h","e","l","p"," ","e","x","i","t">>,
     <<"w","o","u","l","d"," ","i","t"," ","w","o","r","k">>,
     <<"r","e","a","l","l","y","?">>,
     <<"w","h","a","t","e","v","e","r">>,
     <<"s","h","o","w"," ","o","l","d","_","n","o","t","e","s"," ","a","n","d"," ","n","e","w",".","t","x","t">>,
     <<"o","p","e","n"," ","d","a","t","a","-","c","l","e","a","n","e","r"," ","R","E","A","D","M","E",".","m","d">>,
     <<"l","i","s","t"," ","e","v","e","r","y"," ","f","i","l","e">>,
     <<"s","h","o","w"," ","l","a","t","e","s","t"," ","a","n","d"," ","a","l","l">>,
     <<"r","u","n"," ","t","h","e"," ","i","n","s","t","a","l","l"," ","s","c","r","i","p","t">>,
     <<"s","h","o","w"," ","\"","a"," ","b","\""," ","a","n","d"," ","c",".","m","d">>,
     <<"s","h","o","w"," ","t","e","x","t"," ","f","i","l","e","s">>,
     <<"s","h","o","w"," ","t","h","e"," ","s","h","e","l","l","f","i","s","h"," ","m","e","n","u">>,
     <<"s","u","p","e","r","m","a","n">>,
     <<"S","u","p","e","r","m","a","n">>,
     <<"e","x","i","t"," ","s","u","p","e","r","m","a","n">>,
     <<"n","o","r","m","a","l">>,
     <<"r","e","g","u","l","a","r">>,
     <<"s","t","a","t","u","s">>,
     <<"m","e","m","o","r","y">>}

\* a text one character longer than the pipeline accepts
Overlong == [i \in 1..(NlpMaxLength + 1) |-> "a"]

Vocabulary ==
    {<<"h","e","l","p">>, <<"e","x","i","t">>, <<"r","u","n">>, <<"l","i","s","t">>, <<"w","h","a","t">>, <<"f","i","l","e","s">>, <<"t","e","s","t","_","s","c","r","i","p","t",".","p","y">>, <<"?">>}

\* the largest number of vocabulary words in a generated text
MaxWords == 1

RECURSIVE Phrases(_)
Phrases(n) ==
    IF n = 0 THEN {<< >>}
    ELSE LET shorter == Phrases(n - 1)
         IN  shorter \cup {IF p = << >> THEN w ELSE p \o <<" ">> \o w :
                              p \in shorter, w \in Vocabulary}

\* every text handed to recognize
Inputs == Corpus \cup {Overlong} \cup Phrases(MaxWords)

\* what a call of recognize depends on: the variant, the mode flag and, in
\* linguistic mode, the loaded pipeline
Modes ==
    {[variant |-> v, use_spacy |-> FALSE, nlp |-> None] : v \in Variants}
    \cup {[variant |-> v, use_spacy |-> TRUE, nlp |-> Some(m)] : v \in Variants, m \in NlpModels}

ModeOf(eng) == [variant |-> eng.variant, use_spacy |-> eng.use_spacy, nlp |-> eng.nlp]

\* an engine in the given mode, as its constructor leaves it
EngineIn(mode) ==
    IF mode.use_spacy THEN create_intent_recognizer(mode.variant, TRUE, "ok", mode.nlp[1])
    ELSE create_intent_recognizer(mode.variant, FALSE, "ok", [vb |-> FALSE, ner |-> FALSE])

\* Call for every mode and input, as an enumerated function (the merge with
\* the empty function makes it one)
RecognizeTable ==
    EmptyParams @@
    [k \in Modes \X Inputs |-> Call(EngineIn(k[1]), k[2])]

Recognized(eng, user_input) == RecognizeTable[<<ModeOf(eng), user_input>>]

\* one call of recognize over the given definitions: re.search and re.match
\* compile the expression when the fallback scorer first uses it, and the
\* re.error of a malformed one leaves recognize
RecognizedFrom(lib, eng, user_input) ==
    LET From(c) == IF lib = "regex" /\ "patterns" \in c.invoked
                   THEN [c EXCEPT !.result = Raised]
                   ELSE c
    IN  From(Recognized(eng, user_input))

-----------------------------------------------------------------------------
(* The engine lifecycle: constructions and sequential calls                *)

\* the largest number of IntentRecognizer objects constructed
MaxEngines == 2

\* the largest number of loads of the model counted
MaxLoads == 3

\* the installations: spaCy missing, or present with a model that loads, is
\* not installed, or fails to load in some other way
Installations ==
    {[has |-> FALSE, model |-> [load |-> "OSError", nlp |-> None]]}
    \cup {[has |-> TRUE, model |-> [load |-> "ok", nlp |-> Some(m)]] : m \in NlpModels}
    \cup {[has |-> TRUE, model |-> [load |-> o, nlp |-> None]] : o \in LoadOutcomes \ {"ok"}}

\* the pipeline a successful load returns
LoadedModel(model) == IF model.nlp = None THEN [vb |-> FALSE, ner |-> FALSE] ELSE model.nlp[1]

\* the texts typed in the lifecycle: a command, a question, whitespace only,
\* and a text the pipeline refuses
StateInputs == {<<"h","e","l","p">>, <<"w","h","a","t"," ","n","o","w">>, <<" "," ">>, Overlong}

NoCall == << >>

Init ==
    /\ \E i \in Installations : HAS_SPACY = i.has /\ en_core_web_sm = i.model
    /\ library = "sound"
    /\ engines = [e \in 1..MaxEngines |-> Unbuilt]
    /\ loads = 0
    /\ last = NoCall
    /\ memo = NoCall
    /\ calls = << >>
    /\ memory = << >>
    /\ orchestrator = << >>
    /\ fs = << >>
    /\ term = << >>

\* IntentRecognizer() / create_intent_recognizer(): the next engine is built
Construct(e, variant) ==
    /\ engines[e].state = "unbuilt"
    /\ \A j \in 1..(e - 1) : engines[j].state # "unbuilt"
    /\ loads + LoadsOfInit(HAS_SPACY, en_core_web_sm.load) <= MaxLoads
    /\ engines' = [engines EXCEPT ![e] =
                      IntentRecognizerFrom(library, variant, HAS_SPACY, en_core_web_sm.load,
                                           LoadedModel(en_core_web_sm))]
    /\ loads' = loads + LoadsOfInit(HAS_SPACY, en_core_web_sm.load)
    /\ UNCHANGED <<memory, orchestrator, fs, HAS_SPACY, en_core_web_sm, library, last, memo, calls, term>>

\* check_spacy_installation of the orchestrator: imports spaCy and loads the
\* model once more
check_spacy_installation ==
    /\ loads + LoadsOfInit(HAS_SPACY, en_core_web_sm.load) <= MaxLoads
    /\ loads' = loads + LoadsOfInit(HAS_SPACY, en_core_web_sm.load)
    /\ UNCHANGED <<memory, orchestrator, fs, HAS_SPACY, en_core_web_sm, library, engines, last, memo, calls, term>>

\* one completed call engine.recognize(user_input).  keep says whether the call
\* is remembered for a later comparison; a remembered call notes whether a call
\* with another text or engine has followed it
Recognize(e, user_input, keep) ==
    /\ engines[e].state = "ready"
    /\ LET c == RecognizedFrom(library, engines[e], user_input)
           this == [engine |-> e, text |-> user_input, result |-> c.result,
                    invoked |-> c.invoked, by_match |-> c.by_match]
       IN  /\ last' = <<this>>
           /\ memo' = IF keep THEN <<[call |-> this, other |-> FALSE]>>
                      ELSE IF memo = NoCall THEN memo
                      ELSE <<[memo[1] EXCEPT !.other =
                                 @ \/ e # memo[1].call.engine \/ user_input # memo[1].call.text]>>
    /\ engines' = [engines EXCEPT ![e] = AfterRecognize(engines[e], user_input)]
    /\ UNCHANGED <<memory, orchestrator, fs, HAS_SPACY, en_core_web_sm, library, loads, calls, term>>

Next ==
    \/ \E e \in 1..MaxEngines, variant \in Variants : Construct(e, variant)
    \/ check_spacy_installation
    \/ \E e \in 1..MaxEngines, user_input \in StateInputs, keep \in BOOLEAN :
          Recognize(e, user_input, keep)

Spec == Init /\ [][Next]_vars

-----------------------------------------------------------------------------
(* One engine, every input                                                 *)

\* an engine has been constructed in some installation; the calls are all
\* that remains
InitRecognize ==
    /\ \E i \in Installations, variant \in Variants :
          /\ HAS_SPACY = i.has
          /\ en_core_web_sm = i.model
          /\ library = "sound"
          /\ engines = [e \in 1..MaxEngines |->
                          IF e = 1
                          THEN create_intent_recognizer(variant, i.has, i.model.load,
                                                        LoadedModel(i.model))
                          ELSE Unbuilt]
          /\ loads = LoadsOfInit(i.has, i.model.load)
    /\ last = NoCall
    /\ memo = NoCall
    /\ calls = << >>
    /\ memory = << >>
    /\ orchestrator = << >>
    /\ fs = << >>
    /\ term = << >>

NextRecognize == \E user_input \in Inputs : Recognize(1, user_input, FALSE)

SpecRecognize == InitRecognize /\ [][NextRecognize]_vars

-----------------------------------------------------------------------------
(* Properties of one call                                                  *)

\* the engine of the last completed call, and what the call returned
LastEngine == engines[last[1].engine]
LastResult == last[1].result
IntentTypeOf(eng) == IF eng.variant = "A" THEN IntentTypeA ELSE IntentTypeB

\* C1: every call of recognize returns one Intent without raising; its type is
\* one of the kinds of the engine's IntentType and its confidence lies in
\* [0.0, 1.0], in linguistic and in fallback mode alike
C1_RecognizeTotal ==
    last # NoCall =>
        /\ ~LastResult.raised
        /\ LastResult.type \in IntentTypeOf(LastEngine)
        /\ 0 <= LastResult.confidence
        /\ LastResult.confidence <= SCALE

\* C2: an empty or whitespace-only text yields UNKNOWN with confidence 0.0, no
\* target, no parameters and original_input equal to the text passed in, and
\* neither the linguistic matcher nor the fallback scorer is run
C2_EmptyInput ==
    (last # NoCall /\ Strip(last[1].text) = << >>) =>
        /\ LastResult = Intent("UNKNOWN", 0, None, EmptyParams, last[1].text)
        /\ last[1].invoked = {}

\* the last call was answered by a fallback-mode engine with a kind that matched
FallbackMatched ==
    /\ last # NoCall
    /\ ~LastEngine.use_spacy
    /\ ~LastResult.raised
    /\ LastResult.type # "UNKNOWN"

LinguisticMatched ==
    /\ last # NoCall
    /\ LastEngine.use_spacy
    /\ ~LastResult.raised
    /\ last[1].by_match

-----------------------------------------------------------------------------
(* Properties of the engine lifecycle                                      *)

\* what the fallback scorer of the engine's recognizer returns for the text
FallbackScorerResult(eng, user_input) ==
    Recognized([eng EXCEPT !.use_spacy = FALSE, !.nlp = None], user_input).result

\* C6: when the pipeline raises during recognize on a linguistic-mode engine,
\* the exception does not leave recognize and the call returns the Intent the
\* fallback scorer produces for the same text
C6_PipelineFailureFallsBack ==
    (last # NoCall /\ LastEngine.use_spacy /\ PipelineRaises(Strip(last[1].text))) =>
        /\ ~LastResult.raised
        /\ LastResult = FallbackScorerResult(LastEngine, last[1].text)

\* C7: when the load of spaCy or of the model fails at construction (package
\* missing, model missing, or any other error), the construction completes and
\* the engine is in fallback mode
C7_LoadFailureFallsBack ==
    \A e \in 1..MaxEngines :
        (engines[e].state # "unbuilt" /\ engines[e].load # "ok") =>
            engines[e].state = "ready" /\ ~engines[e].use_spacy

\* the last call repeats the remembered call: same engine, same text
Repeated ==
    /\ memo # NoCall
    /\ last # NoCall
    /\ last[1].engine = memo[1].call.engine
    /\ last[1].text = memo[1].call.text

C10_LoadedAtMostOnce == loads <= 1

-----------------------------------------------------------------------------
(* The terminals: dispatch of a recognized Intent                          *)

\* the terminals that hand an Intent to handle_intent: the packaged one
\* (src/ai_script_inventory), the one of ai_tools, the top-level one
Terminals == {"packaged", "tools", "toplevel"}

\* the keys of self.action_handlers of each terminal
action_handlers(kind) ==
    CASE kind = "packaged" -> IntentTypeA
      [] kind = "tools" -> IntentTypeA \ {"AI_CHAT"}
      [] OTHER -> {"LIST", "RUN", "SEARCH", "HELP", "ORGANIZE", "SHOW", "CREATE", "DELETE",
                   "RENAME", "MOVE", "SUMMARIZE", "AI_CHAT", "EXIT", "UNKNOWN"}

\* self.action_handlers.get(intent.type, self.handle_unknown), named by its key
HandlerFor(kind, type) == IF type \in action_handlers(kind) THEN type ELSE "UNKNOWN"

\* the confidences handed to a terminal: on both sides of each threshold
Confidences == {0, Conf(3) - 1, Conf(3), Conf(5) - 1, Conf(5), Conf(10)}

\* what the user may type at the confirmation prompt
Answers == {<<"y">>, <<"y","e","s">>, <<"Y">>, <<" ","Y","e","s"," ">>, <<"n">>, <<"n","o">>, <<"y","e","s"," ","p","l","e","a","s","e">>, << >>}

Waiting(kind) ==
    [kind |-> kind, stage |-> "idle", type |-> "UNKNOWN", confidence |-> 0,
     prompted |-> FALSE, confirm |-> None, handler |-> None]

\* SuperhumanTerminal.handle_intent up to its return or to the input() call
handle_intent(type, confidence) ==
    /\ term.stage # "confirm"
    /\ LET given == [Waiting(term.kind) EXCEPT !.type = type, !.confidence = confidence]
           Dispatched == [given EXCEPT !.stage = "done",
                                       !.handler = Some(HandlerFor(term.kind, type))]
       IN  term' =
             IF term.kind = "toplevel" THEN Dispatched
             ELSE IF confidence < Conf(3) THEN [given EXCEPT !.stage = "done"]
             ELSE IF confidence < Conf(5)
             THEN [given EXCEPT !.stage = "confirm", !.prompted = TRUE]
             ELSE Dispatched
    /\ UNCHANGED <<memory, orchestrator, fs, HAS_SPACY, en_core_web_sm, library, engines, loads, last, memo, calls>>

\* the rest of handle_intent once input() has returned the answer
Confirm(answer) ==
    /\ term.stage = "confirm"
    /\ LET confirm == Strip(Lower(answer))
       IN  term' = [term EXCEPT !.stage = "done", !.confirm = Some(confirm),
                                !.handler = IF confirm \in {<<"y">>, <<"y","e","s">>}
                                            THEN Some(HandlerFor(term.kind, term.type))
                                            ELSE None]
    /\ UNCHANGED <<memory, orchestrator, fs, HAS_SPACY, en_core_web_sm, library, engines, loads, last, memo, calls>>

InitTerminal ==
    /\ \E i \in Installations : HAS_SPACY = i.has /\ en_core_web_sm = i.model
    /\ library = "sound"
    /\ engines = [e \in 1..MaxEngines |-> Unbuilt]
    /\ loads = 0
    /\ last = NoCall
    /\ memo = NoCall
    /\ calls = << >>
    /\ memory = << >>
    /\ orchestrator = << >>
    /\ fs = << >>
    /\ \E kind \in Terminals : term = Waiting(kind)

NextTerminal ==
    \/ \E type \in IntentTypeA \cup IntentTypeB, confidence \in Confidences :
          handle_intent(type, confidence)
    \/ \E answer \in Answers : Confirm(answer)

SpecTerminal == InitTerminal /\ [][NextTerminal]_vars

\* C3: handle_intent goes by the confidence c alone: below 0.3 no handler is
\* invoked; from 0.3 to below 0.5 a handler is invoked only after the user
\* answered the prompt with y or yes; from 0.5 the handler of the intent type
\* is invoked and no prompt is shown; in every terminal
C3_ConfidenceGate ==
    term # << >> /\ term.stage = "done" =>
        /\ term.confidence < Conf(3) => term.handler = None
        /\ (term.confidence >= Conf(3) /\ term.confidence < Conf(5) /\ term.handler # None) =>
              term.prompted /\ term.confirm \in {Some(<<"y">>), Some(<<"y","e","s">>)}
        /\ term.confidence >= Conf(5) =>
              ~term.prompted /\ term.handler = Some(HandlerFor(term.kind, term.type))

-----------------------------------------------------------------------------
(* Concurrent calls of recognize on one engine                             *)

\* the threads that call recognize on engine 1
Threads == {"t1", "t2"}

\* a thread outside recognize
Idle == [pc |-> "idle", arg |-> << >>, user_input |-> << >>, locals |-> << >>, result |-> << >>]

\* a frame of recognize that every call would share
FrameShared(th) == "t1"

\* where a call keeps its parameter and local values: in the frame of the
\* calling thread (recognize has only parameters and local variables)
FrameOf(th) == th

\* a thread calls engine.recognize(user_input)
Enter(th, user_input) ==
    /\ engines[1].state = "ready"
    /\ calls[th].pc = "idle"
    /\ calls' = [[calls EXCEPT ![th].pc = "called", ![th].arg = user_input]
                    EXCEPT ![FrameOf(th)].user_input = user_input]
    /\ UNCHANGED <<memory, orchestrator, fs, HAS_SPACY, en_core_web_sm, library, engines, loads, last, memo, term>>

\* the call runs up to its local values (the scores, or the Intent of the try
\* block)
ComputeLocals(th) ==
    /\ calls[th].pc = "called"
    /\ calls' = [[calls EXCEPT ![th].pc = "computed"]
                    EXCEPT ![FrameOf(th)].locals =
                              <<Recognized(engines[1], calls[FrameOf(th)].user_input).locals>>]
    /\ UNCHANGED <<memory, orchestrator, fs, HAS_SPACY, en_core_web_sm, library, engines, loads, last, memo, term>>

\* the call builds its Intent from the local values and returns it
Finish(th) ==
    /\ calls[th].pc = "computed"
    /\ calls[FrameOf(th)].locals # << >>
    /\ calls' = [calls EXCEPT ![th].pc = "returned",
                              ![th].result =
                                  <<RecognizeFinish(engines[1], calls[FrameOf(th)].locals[1])>>]
    /\ engines' = [engines EXCEPT ![1] =
                      AfterRecognize(engines[1], calls[FrameOf(th)].user_input)]
    /\ UNCHANGED <<memory, orchestrator, fs, HAS_SPACY, en_core_web_sm, library, loads, last, memo, term>>

\* the caller has taken the Intent; the thread may call again
Return(th) ==
    /\ calls[th].pc = "returned"
    /\ calls' = [calls EXCEPT ![th] = Idle]
    /\ UNCHANGED <<memory, orchestrator, fs, HAS_SPACY, en_core_web_sm, library, engines, loads, last, memo, term>>

InitConcurrent ==
    /\ \E i \in Installations, variant \in Variants :
          /\ HAS_SPACY = i.has
          /\ en_core_web_sm = i.model
          /\ library = "sound"
          /\ engines = [e \in 1..MaxEngines |->
                          IF e = 1
                          THEN create_intent_recognizer(variant, i.has, i.model.load,
                                                        LoadedModel(i.model))
                          ELSE Unbuilt]
          /\ loads = LoadsOfInit(i.has, i.model.load)
    /\ last = NoCall
    /\ memo = NoCall
    /\ calls = [th \in Threads |-> Idle]
    /\ memory = << >>
    /\ orchestrator = << >>
    /\ fs = << >>
    /\ term = << >>

NextConcurrent ==
    \/ \E th \in Threads, user_input \in StateInputs : Enter(th, user_input)
    \/ \E th \in Threads : ComputeLocals(th)
    \/ \E th \in Threads : Finish(th)
    \/ \E th \in Threads : Return(th)

SpecConcurrent == InitConcurrent /\ [][NextConcurrent]_vars

-----------------------------------------------------------------------------
(* Properties of the choice among several kinds                            *)

\* the local values of the last call
LastLocals == Recognized(LastEngine, last[1].text).locals

\* the Pattern Library the last call consulted, in registration order: the
\* matcher keys in linguistic mode of src/ai/intent.py, the pattern tables
\* otherwise
LibraryKinds ==
    IF LastEngine.variant = "A"
    THEN IF LastLocals.at = "spacy"
         THEN [k \in 1..Len(_setup_spacy_patterns) |->
                  _map_spacy_intent(_setup_spacy_patterns[k].key)]
         ELSE [k \in 1..Len(_build_intent_patterns) |-> _build_intent_patterns[k].type]
    ELSE [k \in 1..Len(_setup_fallback_patterns) |-> _setup_fallback_patterns[k].type]

\* the score of the k-th kind of the library in the last call; 0 when the kind
\* did not match
LibraryScore(k) ==
    IF LastEngine.variant = "A"
    THEN IF LastLocals.at = "spacy"
         THEN IF LibraryKinds[k] \in DOMAIN LastLocals.scores.matched
              THEN LastLocals.scores.intent_scores[LibraryKinds[k]] ELSE 0
         ELSE LastLocals.scores[k].score
    ELSE IF \E j \in 1..Len(_setup_fallback_patterns[k].patterns) :
               ReMatch(_setup_fallback_patterns[k].patterns[j].re,
                       Lower(LastLocals.text)).ok
         THEN FallbackConfidenceB ELSE 0

\* the last call consulted the library and at least two kinds matched, the
\* best of them above the threshold of UNKNOWN
SeveralKindsMatched ==
    /\ last # NoCall
    /\ ~LastResult.raised
    /\ LastLocals.at \in {"spacy", "patterns", "caught"}
    /\ (LastEngine.variant = "B" /\ LastLocals.at = "spacy") => LastLocals.intent.type = "UNKNOWN"
    /\ Cardinality({k \in DOMAIN LibraryKinds : LibraryScore(k) > 0}) >= 2
    /\ \E k \in DOMAIN LibraryKinds : LibraryScore(k) >= UnknownBelow

\* C11: when several kinds match, recognize returns the kind with the highest
\* score, and among kinds of equal highest score the one registered first in
\* the Pattern Library, wherever in the input the matches are
C11_HighestThenFirstRegistered ==
    SeveralKindsMatched =>
        \E k \in DOMAIN LibraryKinds :
            /\ LastResult.type = LibraryKinds[k]
            /\ \A j \in DOMAIN LibraryKinds : LibraryScore(j) <= LibraryScore(k)
            /\ \A j \in 1..(k - 1) : LibraryScore(j) < LibraryScore(k)

-----------------------------------------------------------------------------
(* Properties of the fields of the returned Intent                         *)

\* C12: on every return path the original_input of the returned Intent is the
\* text exactly as it was passed to recognize, leading and trailing
\* whitespace and letter case included
C12_OriginalInputUntouched ==
    (last # NoCall /\ ~LastResult.raised) => LastResult.original_input = last[1].text

\* the words that make a text a question
Interrogatives ==
    {<<"w","h","a","t">>, <<"w","h","y">>, <<"h","o","w">>, <<"w","h","e","n">>, <<"w","h","e","r","e">>, <<"w","h","o">>, <<"c","a","n">>, <<"c","o","u","l","d">>, <<"w","o","u","l","d">>}

\* the last call ran in linguistic mode on a question, and no pattern of the
\* linguistic matcher matched
UnmatchedQuestion ==
    /\ last # NoCall
    /\ LastEngine.use_spacy
    /\ LastLocals.at = "spacy"
    /\ IF LastEngine.variant = "A" THEN DOMAIN LastLocals.scores.matched = {}
       ELSE BestMatchKeyB(Doc(LastEngine.nlp[1], LastLocals.text), MatcherOf(LastEngine)) = None
    /\ \/ EndsWith(Strip(last[1].text), <<"?">>)
       \/ LET tokens == Doc(LastEngine.nlp[1], Strip(last[1].text)).tokens
          IN  \E i \in 1..Len(tokens) : Lower(tokens[i]) \in Interrogatives

\* C13: in linguistic mode, a text on which no pattern matches and which has
\* an interrogative word or ends with a question mark is returned as AI_CHAT
\* with a confidence from 0.6 to 0.7, never as UNKNOWN
C13_UnmatchedQuestionIsChat ==
    UnmatchedQuestion =>
        /\ LastResult.type = "AI_CHAT"
        /\ LastResult.confidence >= Conf(6)
        /\ LastResult.confidence <= Conf(7)

\* the last call ran in fallback mode and no kind of the pattern table matched
\* the text: every score is 0 (src/ai/intent.py), re.match accepts no pattern
\* (src/ai/__init__.py)
FallbackUnmatched ==
    /\ last # NoCall
    /\ ~LastEngine.use_spacy
    /\ LastLocals.at = "patterns"
    /\ \A k \in DOMAIN LibraryKinds : LibraryScore(k) = 0

\* the text has a question mark or its first word is an interrogative word
QuestionCue(text) ==
    \/ Contains(text, <<"?">>)
    \/ LET words == Split(Lower(text))
       IN  words # << >> /\ words[1] \in Interrogatives

\* C14: in fallback mode, a text on which no kind matches is returned as
\* AI_CHAT with a confidence of about 0.5 when it has a question mark or
\* begins with an interrogative word, and as UNKNOWN with confidence 0.0
\* otherwise
C14_FallbackUnmatched ==
    FallbackUnmatched =>
        IF QuestionCue(last[1].text)
        THEN /\ LastResult.type = "AI_CHAT"
             /\ LastResult.confidence >= Conf(4)
             /\ LastResult.confidence <= Conf(6)
        ELSE LastResult.type = "UNKNOWN" /\ LastResult.confidence = 0

-----------------------------------------------------------------------------
(* The life of the engines over pattern definitions that may be malformed  *)

InitLibrary ==
    /\ \E i \in Installations : HAS_SPACY = i.has /\ en_core_web_sm = i.model
    /\ library \in Libraries
    /\ engines = [e \in 1..MaxEngines |-> Unbuilt]
    /\ loads = 0
    /\ last = NoCall
    /\ memo = NoCall
    /\ calls = << >>
    /\ memory = << >>
    /\ orchestrator = << >>
    /\ fs = << >>
    /\ term = << >>

SpecLibrary == InitLibrary /\ [][Next]_vars

\* C15: a malformed pattern definition makes the construction of the engine
\* fail with an error: over malformed definitions no engine is ever ready
C15_MalformedFailsConstruction ==
    library # "sound" => \A e \in 1..MaxEngines : engines[e].state # "ready"

\* over a regular expression that does not compile, a constructed engine
\* raises in recognize
C15_SurfacesInRecognize ==
    /\ library = "regex"
    /\ last # NoCall
    /\ LastResult.raised
    /\ "patterns" \in last[1].invoked

\* over a token pattern the matcher refuses, an engine of variant A is ready
\* in fallback mode although the model loaded
C15_SilentDowngrade ==
    \E e \in 1..MaxEngines :
        /\ library = "token_pattern"
        /\ engines[e].state = "ready"
        /\ engines[e].variant = "A"
        /\ engines[e].load = "ok"
        /\ ~engines[e].use_spacy

\* C16: in both modes the parameters mapping of a returned Intent has no key
\* whose value is null or the empty string
C16_NoNullOrEmptyParameter ==
    (last # NoCall /\ ~LastResult.raised) =>
        \A k \in DOMAIN LastResult.parameters :
            LastResult.parameters[k] # None /\ LastResult.parameters[k] # << >>

\* a call returned an Intent with several parameters
C16_SeveralParameters ==
    /\ last # NoCall
    /\ ~LastResult.raised
    /\ Cardinality(DOMAIN LastResult.parameters) >= 2

-----------------------------------------------------------------------------
(* Properties of the target and of the scope                               *)

\* the file the returned Intent names: its target; the Intent of variant B
\* has no target field and carries the script under the key script_name
ReturnedTarget ==
    IF LastEngine.variant = "A" THEN LastResult.target
    ELSE IF "script_name" \in DOMAIN LastResult.parameters
         THEN Some(LastResult.parameters["script_name"])
         ELSE None

\* the text is "run <name>.py"
RunFileInput(text) ==
    LET Is(w) == /\ Len(w) = 2
                 /\ Lower(w[1]) = <<"r","u","n">>
                 /\ EndsWith(w[2], <<".","p","y">>)
                 /\ Len(w[2]) > 3
    IN  Is(Split(text))

\* C17: "run <name>.py" is recognized in both modes as the RUN kind with a
\* confidence of at least 0.5 and a target containing the whole file name,
\* ".py" included
C17_RunFileKeepsName ==
    (last # NoCall /\ RunFileInput(last[1].text)) =>
        /\ ~LastResult.raised
        /\ LastResult.type \in {"RUN_SCRIPT", "RUN"}
        /\ LastResult.confidence >= Conf(5)
        /\ ReturnedTarget # None
        /\ Contains(ReturnedTarget[1], Split(last[1].text)[2])

\* the words of the text, cleaned as _extract_file_target_regex cleans them,
\* that end in a known extension
ExtensionWords(text) ==
    LET words == Split(text)
        Clean(w) == StripChars(w, {".", ",", "!", "?", ";", ":", "\"", "'"})
    IN  {Clean(words[i]) : i \in 1..Len(words)}
            \cap {w \in {Clean(words[i]) : i \in 1..Len(words)} :
                      \E ext \in file_extensions : EndsWith(w, ext)}

\* C18: when the text has a token ending in a known extension, the target of
\* the returned Intent, when present, is such a token and no other word
C18_TargetHasExtension ==
    (/\ last # NoCall
     /\ ~LastResult.raised
     /\ LastEngine.variant = "A"
     /\ ExtensionWords(last[1].text) # {}
     /\ LastResult.target # None) =>
        /\ \E ext \in file_extensions : EndsWith(LastResult.target[1], ext)
        /\ LastResult.target[1] \in ExtensionWords(last[1].text)

\* the first cleaned word of the text, from the left, that has the property
FirstWordWith(words, Has(_)) ==
    LET Clean(w) == StripChars(w, {".", ",", "!", "?", ";", ":", "\"", "'"})
        hits == {i \in 1..Len(words) : Has(Clean(words[i]))}
    IN  IF hits = {} THEN None
        ELSE Some(Clean(words[CHOOSE i \in hits : \A j \in hits : i <= j]))

\* the target the three rules give when each is applied to the whole text
\* before the next is tried: a word with a known extension; else a word with
\* an underscore or a hyphen; else the first quoted substring
TargetByPriority(text) ==
    LET HasExt(w) == \E ext \in file_extensions : EndsWith(w, ext)
        HasMark(w) == Contains(w, <<"_">>) \/ Contains(w, <<"-">>)
        byExt == FirstWordWith(Split(text), HasExt)
        byMark == FirstWordWith(Split(text), HasMark)
    IN  IF byExt # None THEN byExt
        ELSE IF byMark # None THEN byMark
        ELSE FirstQuoted(text, 1)

\* C19: the extraction of a file target applies its three rules in strict
\* priority over the whole text: a word with an underscore or a hyphen does
\* not win over a later word with a known extension
C19_ExtensionBeforeUnderscore ==
    (last # NoCall /\ LastEngine.variant = "A") =>
        _extract_file_target_regex(last[1].text) = TargetByPriority(last[1].text)

\* the scope decided by the whole words of the text, left to right, the first
\* hit winning: all/every give "all", latest/recent/new give "recent"
ScopeByTokens(text) ==
    LET AllWords == {<<"a","l","l">>, <<"e","v","e","r","y">>}
        RecentWords == {<<"l","a","t","e","s","t">>, <<"r","e","c","e","n","t">>, <<"n","e","w">>}
        Hit(w) == w \in AllWords \cup RecentWords
        first == FirstWordWith(Split(Lower(text)), Hit)
    IN  IF first = None THEN None
        ELSE IF first[1] \in AllWords THEN Some(<<"a","l","l">>)
        ELSE Some(<<"r","e","c","e","n","t">>)

\* C20: the scope of a recognized Intent is the one its whole tokens decide,
\* left to right, in both modes; a word such as "install" sets none
C20_ScopeFromTokens ==
    (/\ last # NoCall
     /\ ~LastResult.raised
     /\ LastEngine.variant = "A"
     /\ LastResult.type # "UNKNOWN") =>
        (IF "scope" \in DOMAIN LastResult.parameters
         THEN Some(LastResult.parameters["scope"])
         ELSE None) = ScopeByTokens(last[1].text)

-----------------------------------------------------------------------------
(* Properties of the file type                                             *)

\* the type names the words of the text carry: a word that is a type name,
\* or that ends in the extension of one
TypesOfTokens(text) ==
    LET names == {<<"p","y","t","h","o","n">>, <<"s","h","e","l","l">>, <<"m","a","r","k","d","o","w","n">>, <<"t","e","x","t">>, <<"p","d","f">>}
        exts == {<<<<".","p","y">>, <<"p","y","t","h","o","n">>>>, <<<<".","s","h">>, <<"s","h","e","l","l">>>>, <<<<".","m","d">>, <<"m","a","r","k","d","o","w","n">>>>,
                 <<<<".","t","x","t">>, <<"t","e","x","t">>>>, <<<<".","p","d","f">>, <<"p","d","f">>>>}
        Clean(w) == StripChars(Lower(w), {".", ",", "!", "?", ";", ":", "\"", "'"})
        words == {Clean(Split(text)[i]) : i \in 1..Len(Split(text))}
    IN  (words \cap names) \cup {e[2] : e \in {x \in exts : \E w \in words : EndsWith(w, x[1])}}

\* C21: parameters["file_type"] of a recognized Intent is set exactly when a
\* token of the text, lowercased, is a type name or carries its extension,
\* and its value is the type name of such a token
C21_FileTypeFromTokens ==
    (/\ last # NoCall
     /\ ~LastResult.raised
     /\ LastEngine.variant = "A"
     /\ LastResult.type # "UNKNOWN") =>
        IF TypesOfTokens(last[1].text) = {}
        THEN "file_type" \notin DOMAIN LastResult.parameters
        ELSE /\ "file_type" \in DOMAIN LastResult.parameters
             /\ LastResult.parameters["file_type"] \in TypesOfTokens(last[1].text)

-----------------------------------------------------------------------------
(* Properties of the texts the tests name                                  *)

\* the conversational questions of test_ai_chat_detection the claim names
ConversationalQuestions ==
    {<<"W","h","a","t"," ","c","a","n"," ","y","o","u"," ","d","o","?">>, <<"H","o","w"," ","d","o"," ","I"," ","u","s","e"," ","t","h","i","s"," ","s","y","s","t","e","m","?">>,
     <<"C","a","n"," ","y","o","u"," ","h","e","l","p"," ","m","e"," ","u","n","d","e","r","s","t","a","n","d"," ","t","h","i","s"," ","r","e","p","o","s","i","t","o","r","y","?">>}

\* C22: a conversational question is recognized as AI_CHAT with a confidence
\* of at least 0.5 and without raising, in linguistic and in fallback mode
C22_QuestionIsChat ==
    (last # NoCall /\ last[1].text \in ConversationalQuestions) =>
        /\ ~LastResult.raised
        /\ LastResult.type = "AI_CHAT"
        /\ LastResult.confidence >= Conf(5)

\* the direct commands of test_confidence_scoring with the kind of each
DirectCommands ==
    {<<<<"h","e","l","p">>, "HELP">>, <<<<"e","x","i","t">>, "EXIT">>,
     <<<<"r","u","n"," ","t","e","s","t","_","s","c","r","i","p","t",".","p","y">>, "RUN_SCRIPT">>, <<<<"l","i","s","t"," ","f","i","l","e","s">>, "LIST">>}

\* C23: each direct command is recognized as its own kind with a confidence
\* of at least 0.7, in linguistic and in fallback mode
C23_DirectCommandConfident ==
    \A c \in DirectCommands :
        (last # NoCall /\ LastEngine.variant = "A" /\ last[1].text = c[1]) =>
            /\ ~LastResult.raised
            /\ LastResult.type = c[2]
            /\ LastResult.confidence >= Conf(7)

-----------------------------------------------------------------------------
(* Properties of the dispatch table                                        *)

\* the dict display of __init__ evaluates IntentType.<NAME> for every key: it
\* is built when the IntentType imported from ai.intent has every name
TableBuilds(kind) ==
    \E variant \in Variants :
        action_handlers(kind) \subseteq IntentTypeOf([variant |-> variant])

\* C24: the dispatch table of every terminal is exhaustive over the kinds of
\* the recognizer: it can be built, and a dispatched Intent of a kind other
\* than UNKNOWN is handled by the handler of its kind, not by handle_unknown
C24_TableExhaustive ==
    term # << >> =>
        /\ TableBuilds(term.kind)
        /\ (/\ term.stage = "done"
            /\ term.handler # None
            /\ term.kind \in {"packaged", "tools"}
            /\ term.type \in IntentTypeA \ {"UNKNOWN"}) => term.handler[1] = term.type

-----------------------------------------------------------------------------
(* The interactive loop of the terminal                                    *)

\* the largest number of lines read by the loop
MaxReads == 3

\* what the user may type at the prompt of the loop
LoopInputs ==
    {<<"e","x","i","t">>, <<"q","u","i","t">>, <<"b","y","e">>, <<" ","e","x","i","t"," ">>, <<"h","e","l","p">>, <<" "," ">>, <<"?">>,
     <<"s","h","o","w"," ","s","h","e","l","l"," ","s","c","r","i","p","t","s">>, <<"a","s","d","k","j","a","l","k","s","d","j">>}

\* a handle_exit that leaves self.running as it is
handle_exit_keeps(t) == t

\* SuperhumanTerminal.handle_exit
handle_exit(t) == [t EXCEPT !.running = FALSE]

\* handler(intent): the handler of the kind is called
CallHandler(t, type) ==
    LET Called(u) == IF u.handler = Some("EXIT") THEN handle_exit(u) ELSE u
    IN  Called([t EXCEPT !.stage = "done", !.handler = Some(HandlerFor(t.kind, type))])

\* a terminal whose loop has not read a line yet
Started(kind) ==
    [kind |-> kind, stage |-> "idle", type |-> "UNKNOWN", confidence |-> 0,
     prompted |-> FALSE, confirm |-> None, handler |-> None,
     running |-> TRUE, reads |-> 0, typed |-> << >>]

\* one iteration of the while loop of run, up to its end or to the input() of
\* the confirmation: the line is read and stripped, an empty one is skipped,
\* the Intent is recognized and handed to handle_intent; an exception of
\* recognize is printed and the loop goes on
ReadLine(line) ==
    /\ term.running
    /\ term.stage \in {"idle", "done"}
    /\ term.reads < MaxReads
    /\ engines[1].state = "ready"
    /\ LET user_input == Strip(line)
           read == [Started(term.kind) EXCEPT !.reads = term.reads + 1, !.typed = user_input,
                                              !.stage = "done"]
           Handled(intent) ==
               LET given == [read EXCEPT !.type = intent.type,
                                         !.confidence = intent.confidence]
               IN  IF intent.raised THEN read
                   ELSE IF intent.confidence < Conf(3) THEN given
                   ELSE IF intent.confidence < Conf(5)
                   THEN [given EXCEPT !.stage = "confirm", !.prompted = TRUE]
                   ELSE CallHandler(given, intent.type)
       IN  term' = IF user_input = << >> THEN read
                   ELSE Handled(RecognizedFrom(library, engines[1], user_input).result)
    /\ UNCHANGED <<memory, orchestrator, fs, HAS_SPACY, en_core_web_sm, library, engines, loads, last, memo, calls>>

\* the rest of the iteration once the user answered the confirmation
AnswerPrompt(answer) ==
    /\ term.running
    /\ term.stage = "confirm"
    /\ LET confirm == Strip(Lower(answer))
       IN  term' = IF confirm \in {<<"y">>, <<"y","e","s">>}
                   THEN CallHandler([term EXCEPT !.confirm = Some(confirm)], term.type)
                   ELSE [term EXCEPT !.stage = "done", !.confirm = Some(confirm)]
    /\ UNCHANGED <<memory, orchestrator, fs, HAS_SPACY, en_core_web_sm, library, engines, loads, last, memo, calls>>

\* input() raises EOFError or KeyboardInterrupt: the loop is left by break
EndOfInput ==
    /\ term.running
    /\ term.stage # "ended"
    /\ term' = [term EXCEPT !.stage = "ended"]
    /\ UNCHANGED <<memory, orchestrator, fs, HAS_SPACY, en_core_web_sm, library, engines, loads, last, memo, calls>>

\* the terminal has been constructed, with its recognizer, in some installation
InitLoop ==
    /\ \E i \in Installations :
          /\ HAS_SPACY = i.has
          /\ en_core_web_sm = i.model
          /\ engines = [e \in 1..MaxEngines |->
                          IF e = 1
                          THEN create_intent_recognizer("A", i.has, i.model.load,
                                                        LoadedModel(i.model))
                          ELSE Unbuilt]
          /\ loads = LoadsOfInit(i.has, i.model.load)
    /\ library = "sound"
    /\ last = NoCall
    /\ memo = NoCall
    /\ calls = << >>
    /\ memory = << >>
    /\ orchestrator = << >>
    /\ fs = << >>
    /\ term = Started("packaged")

NextLoop ==
    \/ \E line \in LoopInputs : ReadLine(line)
    \/ \E answer \in Answers : AnswerPrompt(answer)
    \/ EndOfInput

SpecLoop == InitLoop /\ [][NextLoop]_vars

ExitWords == {<<"e","x","i","t">>, <<"q","u","i","t">>, <<"b","y","e">>}

\* C25: once the user enters exit, quit or bye, the exit handler runs without
\* a confirmation prompt and running becomes False, in linguistic and in
\* fallback mode; a loop that is not running reads no further input
C25_ExitEndsLoop ==
    [][/\ (term'.reads # term.reads /\ term'.typed \in ExitWords) =>
             /\ term'.handler = Some("EXIT")
             /\ ~term'.prompted
             /\ ~term'.running
       /\ ~term.running => term'.reads = term.reads]_vars

\* the loop has read more than one line and the last one ended it by exit
C25_Exited ==
    /\ term # << >>
    /\ term.reads > 1
    /\ term.typed \in ExitWords
    /\ term.handler = Some("EXIT")
    /\ ~term.running

-----------------------------------------------------------------------------
(* MemorySystem: the exchanges of the conversation                         *)

\* the largest max_memories a MemorySystem is created with, and the largest
\* number of remember calls followed
MaxMemories == 3
MaxRemembers == 5

\* the texts remembered
MemoryInputs == {<<"a">>, <<"b">>}

\* seq[-n:] of Python for n >= 0: -0 is 0, so seq[-0:] is the whole list
SliceLast(seq, n) ==
    IF n = 0 \/ n >= Len(seq) THEN seq
    ELSE SubSeq(seq, Len(seq) - n + 1, Len(seq))

\* a slice that takes no element for n = 0
SliceLastEmptyAtZero(seq, n) ==
    IF n >= Len(seq) THEN seq
    ELSE SubSeq(seq, Len(seq) - n + 1, Len(seq))

\* MemorySystem.__init__
MemorySystem(max_memories) == [max_memories |-> max_memories, memories |-> << >>]

\* MemorySystem.remember: the fields of the object afterwards
remember(self, exchange) ==
    LET Kept(memories) ==
            IF Len(memories) > self.max_memories
            THEN SliceLast(memories, self.max_memories)
            ELSE memories
    IN  [self EXCEPT !.memories = Kept(Append(self.memories, exchange))]

\* a call memory.remember(user_input, response); an exchange carries its
\* timestamp, the number of the call
Remember(user_input) ==
    /\ Len(memory.asked) < MaxRemembers
    /\ LET exchange == [user_input |-> user_input, timestamp |-> Len(memory.asked) + 1]
       IN  memory' = [system |-> remember(memory.system, exchange),
                      asked |-> Append(memory.asked, exchange)]
    /\ UNCHANGED <<HAS_SPACY, en_core_web_sm, library, engines, loads, last, memo, calls,
                   term, orchestrator, fs>>

InitMemory ==
    /\ HAS_SPACY = FALSE
    /\ en_core_web_sm = [load |-> "OSError", nlp |-> None]
    /\ library = "sound"
    /\ engines = [e \in 1..MaxEngines |-> Unbuilt]
    /\ loads = 0
    /\ last = NoCall
    /\ memo = NoCall
    /\ calls = << >>
    /\ term = << >>
    /\ \E n \in 0..MaxMemories : memory = [system |-> MemorySystem(n), asked |-> << >>]
    /\ orchestrator = << >>
    /\ fs = << >>

NextMemory == \E user_input \in MemoryInputs : Remember(user_input)

SpecMemory == InitMemory /\ [][NextMemory]_vars

\* C26: after any sequence of remember calls on a MemorySystem created with
\* max_memories = N, N >= 0, memories has at most N exchanges and holds the
\* most recent min(N, number of calls) of them in the order of the calls
C26_SlidingWindow ==
    memory # << >> =>
        /\ Len(memory.system.memories) <= memory.system.max_memories
        /\ memory.system.memories = SliceLastEmptyAtZero(memory.asked, memory.system.max_memories)

-----------------------------------------------------------------------------
(* SupermanOrchestrator: the loop with the Superman mode                   *)

\* what the user may type at the prompt of the orchestrator
OrchestratorInputs ==
    {<<"s","u","p","e","r","m","a","n">>, <<"S","u","p","e","r","m","a","n">>, <<"e","x","i","t"," ","s","u","p","e","r","m","a","n">>, <<"n","o","r","m","a","l">>, <<" ","r","e","g","u","l","a","r"," ">>, <<"e","x","i","t">>,
     <<"s","t","a","t","u","s">>, <<"m","e","m","o","r","y">>, <<"h","e","l","p">>, <<" "," ">>, <<"W","h","a","t"," ","c","a","n"," ","y","o","u"," ","d","o","?">>, <<"?">>}

\* the keys of self.superman_commands
superman_commands ==
    {<<"m","e","m","o","r","y">>, <<"a","n","a","l","y","z","e">>, <<"s","t","a","t","u","s">>, <<"d","e","m","o">>, <<"e","m","p","l","o","y","e","e","s">>, <<"d","e","l","e","g","a","t","e">>}

\* SupermanOrchestrator.__init__: what the loop reads and writes; recognized
\* lists the texts handed to the recognizer
SupermanOrchestrator ==
    [running |-> TRUE, superman_mode |-> FALSE, history |-> << >>, recognized |-> << >>,
     reads |-> 0, typed |-> << >>, left |-> FALSE, failed |-> FALSE]

activate_superman_mode(self) == [self EXCEPT !.superman_mode = TRUE]

\* a deactivation that leaves the mode as it is
deactivate_keeps_mode(self) == self

deactivate_superman_mode(self) == [self EXCEPT !.superman_mode = FALSE]

\* process_input: the orchestrator afterwards; failed says that recognize
\* raised.  confirmed is the answer to the confirmation of handle_intent,
\* should it be asked
process_input(self, user_input, confirmed) ==
    LET first_word == Lower(Split(user_input)[1])
        Handled(o, intent) ==
            IF intent.raised THEN [o EXCEPT !.failed = TRUE]
            ELSE IF intent.type = "AI_CHAT" /\ o.superman_mode THEN o
            ELSE IF intent.confidence < Conf(3) THEN o
            ELSE IF intent.confidence < Conf(5) /\ ~confirmed THEN o
            ELSE IF HandlerFor("packaged", intent.type) = "EXIT" THEN [o EXCEPT !.running = FALSE]
            ELSE o
    IN  IF first_word \in {<<"e","m","p","l","o","y","e","e","s">>, <<"d","e","l","e","g","a","t","e">>, <<"s","t","a","t","u","s">>} THEN self
        ELSE IF self.superman_mode /\ first_word \in superman_commands THEN self
        ELSE Handled([self EXCEPT !.recognized = Append(@, user_input)],
                     RecognizedFrom(library, engines[1], user_input).result)

\* one iteration of the while loop of run
Line(line, confirmed) ==
    /\ orchestrator.running
    /\ ~orchestrator.left
    /\ orchestrator.reads < MaxReads
    /\ LET user_input == Strip(line)
           read == [orchestrator EXCEPT !.reads = @ + 1, !.typed = user_input, !.failed = FALSE]
           Processed(o) ==
               /\ orchestrator' = o
               /\ memory' = [system |-> remember(memory.system,
                                                 [user_input |-> user_input,
                                                  timestamp |-> Len(memory.asked) + 1]),
                             asked |-> Append(memory.asked,
                                              [user_input |-> user_input,
                                               timestamp |-> Len(memory.asked) + 1])]
       IN  IF user_input = << >>
           THEN orchestrator' = read /\ UNCHANGED memory
           ELSE IF ~read.superman_mode /\ Lower(user_input) = <<"s","u","p","e","r","m","a","n">>
           THEN orchestrator' = activate_superman_mode(read) /\ UNCHANGED memory
           ELSE IF read.superman_mode
                   /\ Lower(user_input) \in {<<"e","x","i","t"," ","s","u","p","e","r","m","a","n">>, <<"n","o","r","m","a","l">>, <<"r","e","g","u","l","a","r">>}
           THEN orchestrator' = deactivate_superman_mode(read) /\ UNCHANGED memory
           ELSE Processed(process_input([read EXCEPT !.history = Append(@, user_input)],
                                        user_input, confirmed))
    /\ UNCHANGED <<HAS_SPACY, en_core_web_sm, library, engines, loads, last, memo, calls,
                   term, fs>>

\* input() raises EOFError or KeyboardInterrupt: the loop is left by break
EndOfSession ==
    /\ orchestrator.running
    /\ ~orchestrator.left
    /\ orchestrator' = [orchestrator EXCEPT !.left = TRUE]
    /\ UNCHANGED <<HAS_SPACY, en_core_web_sm, library, engines, loads, last, memo, calls,
                   term, memory, fs>>

InitSuperman ==
    /\ \E i \in Installations :
          /\ HAS_SPACY = i.has
          /\ en_core_web_sm = i.model
          /\ engines = [e \in 1..MaxEngines |->
                          IF e = 1
                          THEN create_intent_recognizer("A", i.has, i.model.load,
                                                        LoadedModel(i.model))
                          ELSE Unbuilt]
          /\ loads = 2 * LoadsOfInit(i.has, i.model.load)
    /\ library = "sound"
    /\ last = NoCall
    /\ memo = NoCall
    /\ calls = << >>
    /\ term = << >>
    /\ memory = [system |-> MemorySystem(100), asked |-> << >>]
    /\ orchestrator = SupermanOrchestrator
    /\ fs = << >>

NextSuperman ==
    \/ \E line \in OrchestratorInputs, confirmed \in BOOLEAN : Line(line, confirmed)
    \/ EndOfSession

SpecSuperman == InitSuperman /\ [][NextSuperman]_vars

\* the text is a mode command in the given mode
ModeCommand(mode, text) ==
    IF mode THEN Lower(text) \in {<<"e","x","i","t"," ","s","u","p","e","r","m","a","n">>, <<"n","o","r","m","a","l">>, <<"r","e","g","u","l","a","r">>}
    ELSE Lower(text) = <<"s","u","p","e","r","m","a","n">>

\* C27: in run, superman_mode changes only on a mode command: "superman" turns
\* it on when it is off; "exit superman", "normal" and "regular" turn it off
\* when it is on; a mode command is not appended to history, not stored in
\* memory, not passed to the recognizer and does not end the session
C27_ModeCommands ==
    [][orchestrator'.reads # orchestrator.reads =>
         IF ModeCommand(orchestrator.superman_mode, orchestrator'.typed)
         THEN /\ orchestrator'.superman_mode = ~orchestrator.superman_mode
              /\ orchestrator'.history = orchestrator.history
              /\ orchestrator'.recognized = orchestrator.recognized
              /\ memory' = memory
              /\ orchestrator'.running
         ELSE orchestrator'.superman_mode = orchestrator.superman_mode]_vars

\* the mode was turned on and then off again by "exit superman", and the
\* session goes on
C27_BackToNormal ==
    /\ orchestrator # << >>
    /\ orchestrator.reads > 1
    /\ orchestrator.typed = <<"e","x","i","t"," ","s","u","p","e","r","m","a","n">>
    /\ ~orchestrator.superman_mode
    /\ orchestrator.history = << >>
    /\ orchestrator.running

-----------------------------------------------------------------------------
(* safe_move: moving files into a folder                                   *)

\* the last second of the clock
MaxClock == 2

\* the files to move: each lies in a directory of its own, has a base name
\* and a content
MoveSources == {"report", "notes"} \X {"x", "y", "z"}

\* safe_move(src, dst_folder): the files of dst_folder afterwards, by name; a
\* name is the base name with the timestamp put behind it (0: none).
\* shutil.move renames src to dst and replaces a file that is there.  The
\* script of ai_tools first compares the hashes and, when the contents are
\* the same, unlinks src instead of moving it
safe_move(script, folder, src, now) ==
    LET plain == [base |-> src[1], stamp |-> 0]
        stamped == [base |-> src[1], stamp |-> now]
        Moved(dst) == [n \in (DOMAIN folder) \cup {dst} |->
                          IF n = dst THEN src[2] ELSE folder[n]]
    IN  IF plain \notin DOMAIN folder THEN Moved(plain)
        ELSE IF script = "ai_tools" /\ folder[plain] = src[2] THEN folder
        ELSE Moved(stamped)

\* one call safe_move(src, dst_folder) on a file not moved yet
SafeMove(src) ==
    /\ src \in fs.sources
    /\ fs' = [fs EXCEPT !.folder = safe_move(fs.script, fs.folder, src, fs.clock),
                        !.sources = @ \ {src},
                        !.moved = @ \cup {src}]
    /\ UNCHANGED <<HAS_SPACY, en_core_web_sm, library, engines, loads, last, memo, calls,
                   term, memory, orchestrator>>

\* datetime.now() reaches the next second
Tick ==
    /\ fs.clock < MaxClock
    /\ fs' = [fs EXCEPT !.clock = @ + 1]
    /\ UNCHANGED <<HAS_SPACY, en_core_web_sm, library, engines, loads, last, memo, calls,
                   term, memory, orchestrator>>

InitOrganize ==
    /\ HAS_SPACY = FALSE
    /\ en_core_web_sm = [load |-> "OSError", nlp |-> None]
    /\ library = "sound"
    /\ engines = [e \in 1..MaxEngines |-> Unbuilt]
    /\ loads = 0
    /\ last = NoCall
    /\ memo = NoCall
    /\ calls = << >>
    /\ term = << >>
    /\ memory = << >>
    /\ orchestrator = << >>
    /\ \E script \in {"scripts", "ai_tools"} :
          fs = [script |-> script, folder |-> << >>, sources |-> MoveSources,
                moved |-> {}, clock |-> 1]

NextOrganize ==
    \/ \E src \in MoveSources : SafeMove(src)
    \/ Tick

SpecOrganize == InitOrganize /\ [][NextOrganize]_vars

\* C28: safe_move never overwrites a file: every file of the destination
\* folder before a call is there afterwards with its content, and the content
\* of every moved file is in the folder under some name of its base
C28_NeverOverwrites ==
    [][/\ \A n \in DOMAIN fs.folder :
             n \in DOMAIN fs'.folder /\ fs'.folder[n] = fs.folder[n]
       /\ \A src \in fs'.moved :
             \E n \in DOMAIN fs'.folder : n.base = src[1] /\ fs'.folder[n] = src[2]]_vars

-----------------------------------------------------------------------------
\* C29: the Intent returned by recognize of src/ai/intent.py, in linguistic and
\* in fallback mode, has the type UNKNOWN if and only if its confidence is
\* below 0.3
C29_UnknownIffLowConfidence ==
    (last # NoCall /\ LastEngine.variant = "A" /\ ~LastResult.raised) =>
        (LastResult.type = "UNKNOWN" <=> LastResult.confidence < Conf(3))

-----------------------------------------------------------------------------
\* the action kinds the terminal has a handler for, handle_unknown aside
HandledKinds == action_handlers("packaged") \ {"UNKNOWN"}

\* some input makes recognize of the engine return the kind
Returns(eng, kind) ==
    \E text \in Inputs :
        LET Is(c) == ~c.result.raised /\ c.result.type = kind
        IN  Is(Recognized(eng, text))

\* C30: every action kind with a handler in the terminal is returned by
\* recognize of src/ai/intent.py for some input, whether the engine is in
\* linguistic or in fallback mode
C30_EveryKindReachable ==
    \A e \in 1..MaxEngines :
        (engines[e].state = "ready" /\ engines[e].variant = "A") =>
            \A kind \in HandledKinds : Returns(engines[e], kind)

====
